---- MODULE Spec2Model ----
(***************************************************************************)
(* Text Graph Synth & Sequencer: the letter registry, the playback-string  *)
(* parser (parse_line.h), the MIDI beat pulse processor (midi_pulse.h) and *)
(* the oscillators' MIDI gate (oscillators.h), as one state machine.       *)
(*                                                                         *)
(* A playback string is a sequence of one-character strings.  A node of    *)
(* the audio graph is a record; heap holds every processor object created  *)
(* so far (a Node::Ptr is reference counted, so an object outlives the     *)
(* graph while the parser still points at it) and graphNodes the ids that  *)
(* are in the graph now.                                                   *)
(***************************************************************************)
EXTENDS Integers, Sequences, FiniteSets, TLC

\* Bounds of the model.
MaxLine == 4
MaxPlays == 2
MaxTime == 8
MaxBlock == 3

VARIABLES
    reg,            \* LetterRegistry::bindings : letter -> [typeName, params]
    saved_graph,    \* InputProcessor::saved_graph
    heap,           \* every processor object created, by node id
    graphNodes,     \* ids of the nodes in the AudioProcessorGraph
    audioConns,     \* audio connections <<source, destination>>
    midiConns,      \* MIDI connections <<source, destination>>
    audioOut,       \* Parser::audioOut
    midi_pulsers,   \* Parser::midi_pulsers
    paren_depth,    \* Parser::paren_depth (size_t; -k stands for 2^64 - k)
    status,         \* "ok", or how the process ended
    plays,          \* number of PLAY and PAUSE commands processed
    prepared,       \* prepareToPlay has run on the nodes of the graph
    now,            \* samples rendered since prepareToPlay
    blockStart,     \* heap before the last rendered block
    trace,          \* per node, its state after each sample of the last block
    lastOut,        \* per node, the MIDI buffer it left after the last block
    emitted,        \* per node, every event it has left, at absolute samples
    building        \* the command context's place in parse_and_initialize:
                    \* << >> outside it, else what is left to compile

vars == << reg, saved_graph, heap, graphNodes, audioConns, midiConns, audioOut,
           midi_pulsers, paren_depth, status, plays, prepared, now, blockStart,
           trace, lastOut, emitted, building >>

graphVars == << heap, graphNodes, audioConns, midiConns, audioOut,
                midi_pulsers, paren_depth >>
renderVars == << prepared, now, blockStart, trace, lastOut, emitted >>

Max(a, b) == IF a > b THEN a ELSE b
Min(a, b) == IF a < b THEN a ELSE b

(***************************************************************************)
(* Letter registry and type table                                          *)
(***************************************************************************)
OscTypes == {"sin", "triangle", "saw", "square", "noise"}
EffectTypes == {"filter", "delay", "reverb"}

\* The processor class a type name was registered with, by its base class.
TypeKind(typeName) ==
    IF typeName \in OscTypes THEN "osc"
    ELSE IF typeName \in EffectTypes THEN "effect"
    ELSE "midi"

Binding(typeName, params) == [typeName |-> typeName, params |-> params]

\* MidiBeatPulseProcessor's constructor and member initialisers.
MidiBeatPulseProcessor(bpm_in, beats_on_in, beats_off_in) ==
    [ bpm |-> bpm_in,
      beatsOn |-> IF beats_on_in > 0 THEN beats_on_in ELSE 0,
      beatsOff |-> IF beats_off_in > 0 THEN beats_off_in ELSE 0,
      samplesPerBeat |-> 0,
      samplesForOnDuration |-> 0,
      samplesForOffDuration |-> 0,
      globalSampleCount |-> 0,
      nextStateChangeGlobalSample |-> 0,
      currentCycleState |-> "AWAITING_NOTE_ON",
      ourGeneratedNoteIsOn |-> FALSE,
      loopCount |-> 0,
      isInitialCycle |-> TRUE,
      externalGatingNoteActive |-> FALSE,
      isMidiInputGatingActive |-> FALSE,
      num_connections |-> 0,
      velocity |-> 1,
      is_listening_velocity |-> FALSE,
      listening_velocity |-> 1 ]

\* OscillatorBase's constructor and member initialisers (the gate only).
OscillatorBase(initialMidiNote) ==
    [ fixedMidiNote |-> Max(0, Min(127, initialMidiNote)),
      isPlaying |-> FALSE,
      midiTriggered |-> FALSE,
      velocity |-> 1,
      open_on_all_channels |-> FALSE ]

\* LetterRegistry::Binding::create: a new processor from the binding's
\* parameters as they are now.
create(letter, b) ==
    LET k == TypeKind(b.typeName) IN
    [ kind |-> k, letter |-> letter, typeName |-> b.typeName, params |-> b.params,
      proc |-> IF k = "osc" THEN OscillatorBase(b.params[1])
               ELSE IF k = "midi"
                    THEN MidiBeatPulseProcessor(b.params[1], b.params[2], b.params[3])
                    ELSE [ none |-> TRUE ] ]

(***************************************************************************)
(* SET: ctor_descriptor, TypeTable and execute_bind_command.  A Value is   *)
(* [type, val] with type "int", "double" or "string"; every double of the  *)
(* model is a whole number.                                                *)
(***************************************************************************)
\* The registered type names the model binds (delay and reverb, whose
\* defaults are fractions, are left to the same template).
KnownTypes == OscTypes \cup {"filter", "midi"}

\* ctor_descriptor<Proc>::names
names(typeName) ==
    IF typeName \in OscTypes THEN << "note" >>
    ELSE IF typeName = "filter" THEN << "cutoff" >>
    ELSE << "bpm", "on", "off" >>

\* ctor_descriptor<Proc>::types
types(typeName) ==
    IF typeName \in OscTypes THEN << "int" >>
    ELSE IF typeName = "filter" THEN << "double" >>
    ELSE << "double", "int", "int" >>

\* ctor_descriptor<Proc>::defaults
defaults(typeName) ==
    IF typeName \in OscTypes THEN << 66 >>
    ELSE IF typeName = "filter" THEN << 2000 >>
    ELSE << 120, 1, 1 >>

\* The number a numeric token of the model reads as, and whether it holds
\* one of ".eE".
TokenNumber == [ t \in {"2", "90.0"} |-> IF t = "2" THEN 2 ELSE 90 ]
TokenHasPoint(tok) == tok = "90.0"

\* parse_token: a token that starts with a digit or a sign goes through
\* stod or stoi, any other is a string.
parse_token(tok) ==
    IF tok \in DOMAIN TokenNumber
    THEN [ type |-> IF TokenHasPoint(tok) THEN "double" ELSE "int",
           val |-> TokenNumber[tok] ]
    ELSE [ type |-> "string", val |-> tok ]

\* lreg_detail::value_cast<T>: ok is FALSE where it throws (stoi and stod
\* on a string that is no number).
value_cast(T, v) ==
    IF v.type = T THEN [ ok |-> TRUE, val |-> v.val ]
    ELSE IF v.type \in {"int", "double"} THEN [ ok |-> TRUE, val |-> v.val ]
    ELSE [ ok |-> FALSE, val |-> 0 ]

\* LetterRegistry::Binding::set_param on binding b: the error it throws, or
\* "" and the binding with the parameter named key replaced.
set_param(b, key, val) ==
    LET ns == names(b.typeName)
        found == { I \in 1..Len(ns) : ns[I] = key }
    IN IF found = {} THEN [ error |-> "unknown parameter name", binding |-> b ]
       ELSE LET I == CHOOSE J \in found : TRUE
                c == value_cast(types(b.typeName)[I], val)
            IN IF ~c.ok THEN [ error |-> "type mismatch", binding |-> b ]
               ELSE [ error |-> "",
                      binding |-> [b EXCEPT !.params[I] = c.val] ]

\* TypeTable::is_known and LetterRegistry::is_bound
is_known(name) == name \in KnownTypes
is_bound(R, letter) == letter \in DOMAIN R

\* A registry that holds the last binding only: C21 tells it from bind.
bind_DropsOthers(R, letter, b) == [ l \in {letter} |-> b ]

\* LetterRegistry::bind: bindings[letter] = the new binding.
bind(R, letter, b) ==
    [ l \in DOMAIN R \cup {letter} |-> IF l = letter THEN b ELSE R[l] ]

\* A binder that keeps the parameters of a letter already bound to the
\* type: C11 tells it from TypeTable_bind.
TypeTable_bind_KeepsParams(R, letter, typeName) ==
    IF ~is_known(typeName)
    THEN [ error |-> "unknown processor type", reg |-> R ]
    ELSE IF is_bound(R, letter) /\ R[letter].typeName = typeName
    THEN [ error |-> "", reg |-> R ]
    ELSE [ error |-> "", reg |-> bind(R, letter, Binding(typeName, defaults(typeName))) ]

\* TypeTable::bind with no values: the type's defaults.
TypeTable_bind(R, letter, typeName) ==
    IF ~is_known(typeName)
    THEN [ error |-> "unknown processor type", reg |-> R ]
    ELSE [ error |-> "", reg |-> bind(R, letter, Binding(typeName, defaults(typeName))) ]

RECURSIVE pairs(_)
\* while (ss >> k >> v) kv.emplace_back(k, parse_token(v))
pairs(toks) ==
    IF Len(toks) < 2 THEN << >>
    ELSE << << toks[1], parse_token(toks[2]) >> >> \o pairs(Tail(Tail(toks)))

RECURSIVE apply_parameters(_, _, _)
\* for (auto& [k, v] : kv) reg.set_param(letter, k, v): up to the first throw.
apply_parameters(R, letter, kv) ==
    IF kv = << >> THEN [ error |-> "", reg |-> R ]
    ELSE LET r == set_param(R[letter], kv[1][1], kv[1][2])
         IN IF r.error # "" THEN [ error |-> r.error, reg |-> R ]
            ELSE apply_parameters([R EXCEPT ![letter] = r.binding], letter, Tail(kv))

\* execute_bind_command on "set <letter> <toks>": the registry it leaves and
\* the error it throws ("" if none).
execute_bind_command(R, letter, toks) ==
    IF toks = << >> THEN [ error |-> "incomplete set command", reg |-> R ]
    ELSE LET firstTok == toks[1]
             treatAsType == is_known(firstTok) \/ ~is_bound(R, letter)
         IN IF treatAsType
            THEN LET b == TypeTable_bind(R, letter, firstTok)
                 IN IF b.error # "" THEN b
                    ELSE apply_parameters(b.reg, letter, pairs(Tail(toks)))
            ELSE IF Len(toks) < 2
            THEN [ error |-> "parameter key without value", reg |-> R ]
            ELSE apply_parameters(R, letter, pairs(toks))

AudioOutputNode ==
    [ kind |-> "out", letter |-> "", typeName |-> "", params |-> << >>,
      proc |-> [ none |-> TRUE ] ]

(***************************************************************************)
(* The graph and the parser (parse_line.h).  A parse state P is a record   *)
(* of the graph, the Parser members and the locals of initialize_word.     *)
(***************************************************************************)
is_osc(P, n) == P.heap[n].kind = "osc"
is_effect(P, n) == P.heap[n].kind = "effect"
is_midi(P, n) == P.heap[n].kind = "midi"

\* AudioProcessor::producesMidi / acceptsMidi of the node's processor.
producesMidi(P, n) == P.heap[n].kind = "midi"
acceptsMidi(P, n) == P.heap[n].kind \in {"osc", "midi"}
\* The processor has an input bus / an output bus.
hasAudioInput(P, n) == P.heap[n].kind \in {"effect", "midi", "out"}
hasAudioOutput(P, n) == P.heap[n].kind \in {"osc", "effect", "midi"}

\* graph->addNode: the node gets the next id.
addNode(P, node) ==
    [P EXCEPT !.heap = Append(@, node),
              !.graphNodes = @ \cup {Len(P.heap) + 1}]

\* Parser::connect: graph->addConnection on the left and right channels; the
\* graph refuses a connection whose ends are not both nodes of the graph or
\* that the processors' buses do not allow.
connect(P, n1, n2) ==
    IF /\ n1 \in P.graphNodes /\ n2 \in P.graphNodes /\ n1 # n2
       /\ hasAudioOutput(P, n1) /\ hasAudioInput(P, n2)
    THEN [P EXCEPT !.audioConns = @ \cup {<< n1, n2 >>}]
    ELSE P

\* graph->addConnection on midiChannelIndex, refused likewise.
addMidiConnection(P, n1, n2) ==
    IF /\ n1 \in P.graphNodes /\ n2 \in P.graphNodes /\ n1 # n2
       /\ producesMidi(P, n1) /\ acceptsMidi(P, n2)
    THEN [P EXCEPT !.midiConns = @ \cup {<< n1, n2 >>}]
    ELSE P

\* OscillatorBase::setMidiTriggered
setMidiTriggered(osc, shouldBeTriggered) ==
    IF osc.midiTriggered = shouldBeTriggered THEN osc
    ELSE [osc EXCEPT !.midiTriggered = shouldBeTriggered,
                     !.isPlaying = ~shouldBeTriggered]

\* Parser::connect_midi_direct
connect_midi_direct(P, n1, n2) ==
    LET Q == addMidiConnection(P, n1, n2) IN
    IF is_osc(Q, n2)
    THEN [Q EXCEPT !.heap[n2].proc =
              [setMidiTriggered(@, TRUE) EXCEPT !.open_on_all_channels = TRUE]]
    ELSE IF is_midi(Q, n2)
    THEN [Q EXCEPT !.heap[n2].proc.isMidiInputGatingActive = TRUE,
                   !.heap[n2].proc.is_listening_velocity = FALSE]
    ELSE Q

\* inc_connections on the parent when the claim is pending, then its
\* get_connections().
claimed(P, n1, need_to_inc) ==
    IF need_to_inc
    THEN [P EXCEPT !.heap[n1].proc.num_connections = @ + 1]
    ELSE P

\* Parser::connect_midi; set_velocity and set_listening_velocity cast the
\* count to juce::uint8.
connect_midi(P, n1, n2, need_to_inc) ==
    LET Q == addMidiConnection(P, n1, n2) IN
    IF is_osc(Q, n2)
    THEN LET R == claimed(Q, n1, need_to_inc)
             connection == R.heap[n1].proc.num_connections
         IN [R EXCEPT !.heap[n2].proc =
                [setMidiTriggered(@, TRUE) EXCEPT !.open_on_all_channels = FALSE,
                                                  !.velocity = connection % 256]]
    ELSE IF is_midi(Q, n2)
    THEN LET R == claimed(Q, n1, need_to_inc)
             connection == R.heap[n1].proc.num_connections
         IN [R EXCEPT !.heap[n2].proc.isMidiInputGatingActive = TRUE,
                      !.heap[n2].proc.listening_velocity = connection % 256,
                      !.heap[n2].proc.is_listening_velocity = TRUE]
    ELSE Q

\* The locals of initialize_word at its start.
WordLocals ==
    [ need_to_inc |-> TRUE, orphans |-> << >>, effects_tail |-> 0,
      prev_was_midi |-> FALSE ]

RECURSIVE connectAll(_, _, _)
\* for (auto orphan : orphans) connect(orphan, dest)
connectAll(P, orphans, dest) ==
    IF orphans = << >> THEN P
    ELSE connectAll(connect(P, Head(orphans), dest), Tail(orphans), dest)

\* The '(' branch of the loop of initialize_word.
OpenParen(P) ==
    [P EXCEPT !.paren_depth = @ + 1,
              !.prev_was_midi = FALSE,
              !.need_to_inc = TRUE]

\* A ')' that leaves the stack of pulses as it is: C6 tells it from CloseParen.
CloseParen_KeepsPulse(P, ub) ==
    [P EXCEPT !.paren_depth = @ - 1, !.prev_was_midi = FALSE]

\* The ')' branch: paren_depth-- wraps below 0 (size_t), and pop_back on an
\* empty vector is undefined behaviour, whose outcome is ub.
CloseParen(P, ub) ==
    IF P.midi_pulsers = << >>
    THEN [P EXCEPT !.paren_depth = @ - 1, !.prev_was_midi = FALSE, !.status = ub]
    ELSE [P EXCEPT !.paren_depth = @ - 1,
                   !.prev_was_midi = FALSE,
                   !.midi_pulsers = SubSeq(@, 1, Len(@) - 1)]

\* if (prev_was_midi) connect_midi_direct(midi_pulsers.back(), current_node)
DirectStep(P, current_node) ==
    IF P.prev_was_midi
    THEN connect_midi_direct(P, P.midi_pulsers[Len(P.midi_pulsers)], current_node)
    ELSE P

\* A claim that leaves need_to_inc set: C7 tells it from ParentStep.
ParentStep_KeepsNeedToInc(P, current_node, ub) ==
    IF P.paren_depth = 0 THEN P
    ELSE IF P.paren_depth < 0 \/ P.paren_depth > Len(P.midi_pulsers)
    THEN [P EXCEPT !.status = ub]
    ELSE connect_midi(P, P.midi_pulsers[P.paren_depth], current_node, P.need_to_inc)

\* A letter that attaches to the outermost open pulse: C25 tells it from
\* ParentStep.
ParentStep_Outermost(P, current_node, ub) ==
    IF P.paren_depth = 0 THEN P
    ELSE IF P.paren_depth < 0 \/ P.paren_depth > Len(P.midi_pulsers)
    THEN [P EXCEPT !.status = ub]
    ELSE [connect_midi(P, P.midi_pulsers[1], current_node, P.need_to_inc)
             EXCEPT !.need_to_inc = FALSE]

\* if (paren_depth > 0) connect_midi(midi_pulsers[paren_depth - 1], ...):
\* the index is past the end of the vector when the stack holds fewer than
\* paren_depth entries (undefined behaviour, outcome ub).
ParentStep(P, current_node, ub) ==
    IF P.paren_depth = 0 THEN P
    ELSE IF P.paren_depth < 0 \/ P.paren_depth > Len(P.midi_pulsers)
    THEN [P EXCEPT !.status = ub]
    ELSE [connect_midi(P, P.midi_pulsers[P.paren_depth], current_node, P.need_to_inc)
             EXCEPT !.need_to_inc = FALSE]

\* An effect that becomes the tail only when the word has none yet: C36 tells
\* it from KindStep.
KindStep_KeepsTail(P, current_node) ==
    IF is_osc(P, current_node)
    THEN [P EXCEPT !.orphans = Append(@, current_node), !.prev_was_midi = FALSE]
    ELSE IF is_effect(P, current_node)
    THEN LET Q == connectAll(P, P.orphans, current_node)
             R == IF P.effects_tail # 0 THEN connect(Q, P.effects_tail, current_node)
                  ELSE Q
         IN [R EXCEPT !.prev_was_midi = IF P.orphans # << >> THEN FALSE ELSE @,
                      !.orphans = << >>,
                      !.effects_tail = IF @ # 0 THEN @ ELSE current_node]
    ELSE IF is_midi(P, current_node)
    THEN [P EXCEPT !.prev_was_midi = TRUE,
                   !.midi_pulsers = Append(@, current_node)]
    ELSE P

\* An effect that keeps the orphans it took: C9 tells it from KindStep.
KindStep_KeepsOrphans(P, current_node) ==
    IF is_osc(P, current_node)
    THEN [P EXCEPT !.orphans = Append(@, current_node), !.prev_was_midi = FALSE]
    ELSE IF is_effect(P, current_node)
    THEN LET Q == connectAll(P, P.orphans, current_node)
             R == IF P.effects_tail # 0 THEN connect(Q, P.effects_tail, current_node)
                  ELSE Q
         IN [R EXCEPT !.prev_was_midi = IF P.orphans # << >> THEN FALSE ELSE @,
                      !.effects_tail = current_node]
    ELSE IF is_midi(P, current_node)
    THEN [P EXCEPT !.prev_was_midi = TRUE,
                   !.midi_pulsers = Append(@, current_node)]
    ELSE P

\* The dispatch on the kind of the new node.
KindStep(P, current_node) ==
    IF is_osc(P, current_node)
    THEN [P EXCEPT !.orphans = Append(@, current_node), !.prev_was_midi = FALSE]
    ELSE IF is_effect(P, current_node)
    THEN LET Q == connectAll(P, P.orphans, current_node)
             R == IF P.effects_tail # 0 THEN connect(Q, P.effects_tail, current_node)
                  ELSE Q
         IN [R EXCEPT !.prev_was_midi = IF P.orphans # << >> THEN FALSE ELSE @,
                      !.orphans = << >>,
                      !.effects_tail = current_node]
    ELSE IF is_midi(P, current_node)
    THEN [P EXCEPT !.prev_was_midi = TRUE,
                   !.midi_pulsers = Append(@, current_node)]
    ELSE P

\* A letter that stands for one node, made at its first occurrence: C13
\* tells it from Letter.
Letter_OneNode(P, ch, ub) ==
    IF ch \notin DOMAIN P.reg THEN [P EXCEPT !.status = "terminated"]
    ELSE LET made == { n \in P.graphNodes : P.heap[n].letter = ch }
             current_node == IF made = {} THEN Len(P.heap) + 1
                             ELSE CHOOSE n \in made : TRUE
             A == IF made = {} THEN addNode(P, create(ch, P.reg[ch])) ELSE P
             B == DirectStep(A, current_node)
             C == ParentStep(B, current_node, ub)
         IN IF C.status # "ok" THEN C ELSE KindStep(C, current_node)

\* A letter: reg.initialize throws for an unbound letter, and nothing
\* catches it.
Letter(P, ch, ub) ==
    IF ch \notin DOMAIN P.reg THEN [P EXCEPT !.status = "terminated"]
    ELSE LET current_node == Len(P.heap) + 1
             A == addNode(P, create(ch, P.reg[ch]))
             B == DirectStep(A, current_node)
             C == ParentStep(B, current_node, ub)
         IN IF C.status # "ok" THEN C ELSE KindStep(C, current_node)

\* One iteration of the loop of initialize_word.
Char(P, ch, ub) ==
    IF P.status # "ok" THEN P
    ELSE IF ch = "(" THEN OpenParen(P)
    ELSE IF ch = ")" THEN CloseParen(P, ub)
    ELSE Letter(P, ch, ub)

RECURSIVE Chars(_, _, _)
Chars(P, s, ub) ==
    IF s = << >> THEN P ELSE Chars(Char(P, Head(s), ub), Tail(s), ub)

\* An end of word that connects the orphans to audioOut only when the word
\* has no effect: C27 tells it from EndOfWord.
EndOfWord_TailOnly(P) ==
    IF P.status # "ok" THEN P
    ELSE IF P.effects_tail # 0 THEN connect(P, P.effects_tail, P.audioOut)
    ELSE connectAll(P, P.orphans, P.audioOut)

\* The end of initialize_word: the last effect, then every orphan, to audioOut.
EndOfWord(P) ==
    IF P.status # "ok" THEN P
    ELSE LET Q == IF P.effects_tail # 0 THEN connect(P, P.effects_tail, P.audioOut)
                  ELSE P
         IN connectAll(Q, P.orphans, P.audioOut)

\* A word that starts with the locals the word before left: C8 tells it
\* from initialize_word.
initialize_word_KeepsLocals(P, s, ub) == EndOfWord(Chars(P, s, ub))

\* Parser::initialize_word
initialize_word(P, s, ub) ==
    LET L == WordLocals IN
    EndOfWord(Chars([P EXCEPT !.need_to_inc = L.need_to_inc,
                              !.orphans = L.orphans,
                              !.effects_tail = L.effects_tail,
                              !.prev_was_midi = L.prev_was_midi], s, ub))

\* operator>> on the line: the whitespace-separated words, in order.
RECURSIVE Words(_, _, _)
Words(line, k, cur) ==
    IF k > Len(line)
    THEN IF cur = << >> THEN << >> ELSE << cur >>
    ELSE IF line[k] = " "
    THEN IF cur = << >> THEN Words(line, k + 1, << >>)
         ELSE << cur >> \o Words(line, k + 1, << >>)
    ELSE Words(line, k + 1, Append(cur, line[k]))

RECURSIVE initialize_words(_, _, _)
initialize_words(P, ws, ub) ==
    IF ws = << >> \/ P.status # "ok" THEN P
    ELSE initialize_words(initialize_word(P, Head(ws), ub), Tail(ws), ub)

\* Parser::parse_and_initialize
parse_and_initialize(P, line, ub) == initialize_words(P, Words(line, 1, << >>), ub)

\* A clear that adds the new output node and leaves the rest of the graph:
\* C19 tells it from clear_graph.
clear_graph_KeepsNodes(P) ==
    [P EXCEPT !.heap = Append(@, AudioOutputNode),
              !.graphNodes = @ \cup {Len(P.heap) + 1},
              !.audioOut = Len(P.heap) + 1]

\* Parser::clear_graph: the objects stay on the heap (the parser's stack may
\* still point at them); the graph holds a new output node only.
clear_graph(P) ==
    [P EXCEPT !.heap = Append(@, AudioOutputNode),
              !.graphNodes = {Len(P.heap) + 1},
              !.audioConns = {},
              !.midiConns = {},
              !.audioOut = Len(P.heap) + 1]

\* The parse state made of the variables, and the locals of no word.
Here ==
    [ reg |-> reg, heap |-> heap, graphNodes |-> graphNodes,
      audioConns |-> audioConns, midiConns |-> midiConns, audioOut |-> audioOut,
      midi_pulsers |-> midi_pulsers, paren_depth |-> paren_depth,
      status |-> status,
      need_to_inc |-> TRUE, orphans |-> << >>, effects_tail |-> 0,
      prev_was_midi |-> FALSE ]

\* The variables take the graph and the parser members of parse state P.
Becomes(P) ==
    /\ heap' = P.heap
    /\ graphNodes' = P.graphNodes
    /\ audioConns' = P.audioConns
    /\ midiConns' = P.midiConns
    /\ audioOut' = P.audioOut
    /\ midi_pulsers' = P.midi_pulsers
    /\ paren_depth' = P.paren_depth
    /\ status' = P.status

(***************************************************************************)
(* MidiBeatPulseProcessor (midi_pulse.h).  A MIDI message is a record      *)
(* [pos, on, vel]: its sample position in the block, note-on or note-off,  *)
(* and its velocity, which carries the slot.                               *)
(***************************************************************************)
noteOn(velocity, pos) == [pos |-> pos, on |-> TRUE, vel |-> velocity]
noteOff(velocity, pos) == [pos |-> pos, on |-> FALSE, vel |-> velocity]

\* static_cast<long long>((newSampleRate * 60.0) / bpm), or 0.
samplesPerBeatFor(newSampleRate, bpm) ==
    IF bpm > 0 /\ newSampleRate > 0 THEN (newSampleRate * 60) \div bpm ELSE 0

\* MidiBeatPulseProcessor::prepareToPlay
prepareToPlay(p, newSampleRate) ==
    LET spb == samplesPerBeatFor(newSampleRate, p.bpm) IN
    [p EXCEPT !.samplesPerBeat = spb,
              !.samplesForOnDuration = p.beatsOn * spb,
              !.samplesForOffDuration = p.beatsOff * spb,
              !.globalSampleCount = 0,
              !.currentCycleState = "AWAITING_NOTE_ON",
              !.nextStateChangeGlobalSample = 0,
              !.ourGeneratedNoteIsOn = FALSE,
              !.loopCount = 0,
              !.isInitialCycle = TRUE,
              !.externalGatingNoteActive = FALSE]

\* The body of the loop over the incoming messages of one sample: the
\* parent gate after msg.
gateAfter(p, msg) ==
    IF ~p.isMidiInputGatingActive THEN p
    ELSE LET byKind == msg.on
             byVelocity == IF p.is_listening_velocity /\ p.listening_velocity # msg.vel
                           THEN FALSE ELSE byKind
         IN [p EXCEPT !.externalGatingNoteActive = byVelocity]

\* An engine state r is [p, out, it]: the processor, processedMidi and the
\* index of incomingMidiIter in midiMessages.
RECURSIVE incoming(_, _, _)
\* while (incomingMidiIter != incomingMidiEnd && samplePosition == current)
incoming(r, midi, s) ==
    IF r.it <= Len(midi) /\ midi[r.it].pos = s
    THEN incoming([r EXCEPT !.p = gateAfter(@, midi[r.it]), !.it = @ + 1], midi, s)
    ELSE r

\* No forced OFF: C4 tells it from forcedOff.
forcedOff_Never(r, s) == r

\* A forced OFF that leaves the note marked as on: C34 tells it from
\* forcedOff.
forcedOff_KeepsFlag(r, s) ==
    IF r.p.isMidiInputGatingActive /\ r.p.ourGeneratedNoteIsOn
          /\ ~r.p.externalGatingNoteActive
    THEN [r EXCEPT !.out = Append(@, noteOff(r.p.velocity, s))]
    ELSE r

\* A forced OFF that also starts the cycle again: C30 tells it from forcedOff.
forcedOff_Restarts(r, s) ==
    IF r.p.isMidiInputGatingActive /\ r.p.ourGeneratedNoteIsOn
          /\ ~r.p.externalGatingNoteActive
    THEN [r EXCEPT !.out = Append(@, noteOff(r.p.velocity, s)),
                   !.p.ourGeneratedNoteIsOn = FALSE,
                   !.p.currentCycleState = "AWAITING_NOTE_ON",
                   !.p.nextStateChangeGlobalSample = r.p.globalSampleCount + s]
    ELSE r

\* The forced OFF when the parent gate has closed.
forcedOff(r, s) ==
    IF r.p.isMidiInputGatingActive /\ r.p.ourGeneratedNoteIsOn
          /\ ~r.p.externalGatingNoteActive
    THEN [r EXCEPT !.out = Append(@, noteOff(r.p.velocity, s)),
                   !.p.ourGeneratedNoteIsOn = FALSE]
    ELSE r

\* A cycle that counts its first entry too: C2 tells it from awaitingNoteOn.
awaitingNoteOn_CountsFirst(r, s) ==
    LET p == r.p
        loopCount == p.loopCount + 1
        velocity == IF p.num_connections > 0
                    THEN ((loopCount % p.num_connections) + 1) % 256
                    ELSE 1
        permittedByParentGate ==
            ~p.isMidiInputGatingActive \/ p.externalGatingNoteActive
        sends == p.beatsOn > 0 /\ permittedByParentGate /\ ~p.ourGeneratedNoteIsOn
    IN [r EXCEPT !.out = IF sends THEN Append(@, noteOn(velocity, s)) ELSE @,
                 !.p = [p EXCEPT !.loopCount = loopCount,
                                 !.isInitialCycle = FALSE,
                                 !.velocity = velocity,
                                 !.ourGeneratedNoteIsOn = IF sends THEN TRUE ELSE @,
                                 !.currentCycleState = "NOTE_IS_ON",
                                 !.nextStateChangeGlobalSample =
                                     @ + p.samplesForOnDuration]]

\* A cycle that waits for the parent gate, sample after sample, before it
\* starts: C3 tells it from awaitingNoteOn.
awaitingNoteOn_Waits(r, s) ==
    LET p == r.p
        loopCount == IF ~p.isInitialCycle THEN p.loopCount + 1 ELSE p.loopCount
        velocity == IF p.num_connections > 0
                    THEN ((loopCount % p.num_connections) + 1) % 256
                    ELSE 1
        permittedByParentGate ==
            ~p.isMidiInputGatingActive \/ p.externalGatingNoteActive
        sends == p.beatsOn > 0 /\ permittedByParentGate /\ ~p.ourGeneratedNoteIsOn
    IN IF p.beatsOn > 0 /\ ~permittedByParentGate
       THEN [r EXCEPT !.p.nextStateChangeGlobalSample = @ + 1]
       ELSE [r EXCEPT !.out = IF sends THEN Append(@, noteOn(velocity, s)) ELSE @,
                 !.p = [p EXCEPT !.loopCount = loopCount,
                                 !.isInitialCycle = FALSE,
                                 !.velocity = velocity,
                                 !.ourGeneratedNoteIsOn = IF sends THEN TRUE ELSE @,
                                 !.currentCycleState = "NOTE_IS_ON",
                                 !.nextStateChangeGlobalSample =
                                     @ + p.samplesForOnDuration]]

\* The AWAITING_NOTE_ON branch of the state change.  loopCount is an
\* unsigned long long, which no run of the model wraps.
awaitingNoteOn(r, s) ==
    LET p == r.p
        loopCount == IF ~p.isInitialCycle THEN p.loopCount + 1 ELSE p.loopCount
        velocity == IF p.num_connections > 0
                    THEN ((loopCount % p.num_connections) + 1) % 256
                    ELSE 1
        permittedByParentGate ==
            ~p.isMidiInputGatingActive \/ p.externalGatingNoteActive
        sends == p.beatsOn > 0 /\ permittedByParentGate /\ ~p.ourGeneratedNoteIsOn
    IN [r EXCEPT !.out = IF sends THEN Append(@, noteOn(velocity, s)) ELSE @,
                 !.p = [p EXCEPT !.loopCount = loopCount,
                                 !.isInitialCycle = FALSE,
                                 !.velocity = velocity,
                                 !.ourGeneratedNoteIsOn = IF sends THEN TRUE ELSE @,
                                 !.currentCycleState = "NOTE_IS_ON",
                                 !.nextStateChangeGlobalSample =
                                     @ + p.samplesForOnDuration]]

\* A cycle that ends without its Off: C1 tells it from noteIsOn.
noteIsOn_Silent(r, s) ==
    LET p == r.p IN
    [r EXCEPT !.p = [p EXCEPT !.ourGeneratedNoteIsOn = FALSE,
                              !.currentCycleState = "AWAITING_NOTE_ON",
                              !.nextStateChangeGlobalSample =
                                  @ + p.samplesForOffDuration]]

\* An end of note that schedules the next boundary at the sample before the
\* current one: C35 tells it from noteIsOn.
noteIsOn_Past(r, s) ==
    LET p == r.p IN
    [r EXCEPT !.out = IF p.ourGeneratedNoteIsOn
                      THEN Append(@, noteOff(p.velocity, s)) ELSE @,
              !.p = [p EXCEPT !.ourGeneratedNoteIsOn = FALSE,
                              !.currentCycleState = "AWAITING_NOTE_ON",
                              !.nextStateChangeGlobalSample =
                                  p.globalSampleCount + s - 1]]

\* The NOTE_IS_ON branch of the state change.
noteIsOn(r, s) ==
    LET p == r.p IN
    [r EXCEPT !.out = IF p.ourGeneratedNoteIsOn
                      THEN Append(@, noteOff(p.velocity, s)) ELSE @,
              !.p = [p EXCEPT !.ourGeneratedNoteIsOn = FALSE,
                              !.currentCycleState = "AWAITING_NOTE_ON",
                              !.nextStateChangeGlobalSample =
                                  @ + p.samplesForOffDuration]]

RECURSIVE stateChanges(_, _)
\* while ((globalSampleCount + currentSampleInBlock) == nextStateChangeGlobalSample)
stateChanges(r, s) ==
    IF r.p.globalSampleCount + s = r.p.nextStateChangeGlobalSample
    THEN stateChanges(IF r.p.currentCycleState = "AWAITING_NOTE_ON"
                      THEN awaitingNoteOn(r, s) ELSE noteIsOn(r, s), s)
    ELSE r

\* An iteration that makes the pulse's own transition before it reads the
\* incoming messages: C31 tells it from sampleStep.
sampleStep_TransitionFirst(r, midi, s) ==
    forcedOff(incoming(stateChanges(r, s), midi, s), s)

\* One iteration of the loop over the samples of the block.
sampleStep(r, midi, s) == stateChanges(forcedOff(incoming(r, midi, s), s), s)

RECURSIVE samples(_, _, _, _, _)
\* The loop over the samples; tr collects the processor after each sample.
samples(r, midi, s, blockSize, tr) ==
    IF s >= blockSize THEN [r |-> r, tr |-> tr]
    ELSE LET q == sampleStep(r, midi, s)
         IN samples(q, midi, s + 1, blockSize, Append(tr, q.p))

\* The messages the loop over the samples did not reach, added to
\* processedMidi after it.
leftover(r, midi) == r.out \o SubSeq(midi, r.it, Len(midi))

\* The early return of processBlock when both durations are 0:
\* midiMessages is left as it came in.
inert(p) == p.samplesForOnDuration = 0 /\ p.samplesForOffDuration = 0

\* A block that advances the sample count by one whatever its size: C32
\* tells it from processBlock.
processBlock_CountsBlocks(p, blockSize, midiMessages) ==
    IF inert(p)
    THEN [ p |-> [p EXCEPT !.globalSampleCount = @ + 1],
           out |-> midiMessages,
           tr |-> [s \in 1..blockSize |-> p] ]
    ELSE LET done == samples([p |-> p, out |-> << >>, it |-> 1],
                             midiMessages, 0, blockSize, << >>)
         IN [ p |-> [done.r.p EXCEPT !.globalSampleCount = @ + 1],
              out |-> leftover(done.r, midiMessages),
              tr |-> done.tr ]

\* MidiBeatPulseProcessor::processBlock: the processor after the block, the
\* content of midiMessages after it, and the processor after each sample.
processBlock(p, blockSize, midiMessages) ==
    IF inert(p)
    THEN [ p |-> [p EXCEPT !.globalSampleCount = @ + blockSize],
           out |-> midiMessages,
           tr |-> [s \in 1..blockSize |-> p] ]
    ELSE LET done == samples([p |-> p, out |-> << >>, it |-> 1],
                             midiMessages, 0, blockSize, << >>)
         IN [ p |-> [done.r.p EXCEPT !.globalSampleCount = @ + blockSize],
              out |-> leftover(done.r, midiMessages),
              tr |-> done.tr ]

(***************************************************************************)
(* OscillatorBase's gate (oscillators.h)                                   *)
(***************************************************************************)
\* OscillatorBase::prepareToPlay
oscPrepareToPlay(osc) == [osc EXCEPT !.isPlaying = ~osc.midiTriggered]

\* OscillatorBase::handleMidi
handleMidi(osc, m) ==
    IF ~osc.midiTriggered \/ (osc.velocity # m.vel /\ ~osc.open_on_all_channels)
    THEN osc
    ELSE [osc EXCEPT !.isPlaying = m.on]

RECURSIVE handleAll(_, _, _, _)
\* The loop of OscillatorBase::processBlock up to sample s: a message is
\* handled at its position limited to the block.
handleAll(osc, midi, s, numSamples) ==
    IF midi = << >> THEN osc
    ELSE IF Max(0, Min(numSamples - 1, Head(midi).pos)) > s THEN osc
    ELSE handleAll(handleMidi(osc, Head(midi)), Tail(midi), s, numSamples)

\* OscillatorBase::processBlock: the oscillator after the block, and as it
\* renders each sample.
oscProcessBlock(osc, numSamples, midi) ==
    [ p |-> handleAll(osc, midi, numSamples - 1, numSamples),
      out |-> << >>,
      tr |-> [s \in 1..numSamples |-> handleAll(osc, midi, s - 1, numSamples)] ]

(***************************************************************************)
(* The graph's render callback: every node processes the block, a source   *)
(* before its destinations; a node's MIDI input is what its MIDI sources   *)
(* left in their buffers.                                                  *)
(***************************************************************************)
RECURSIVE ascending(_)
ascending(S) ==
    IF S = {} THEN << >>
    ELSE LET m == CHOOSE x \in S : \A y \in S : x <= y
         IN << m >> \o ascending(S \ {m})

RECURSIVE byPosition(_, _, _)
\* MidiBuffer::addEvents: the events of b go into a by sample position, after
\* the events a holds at the same position.
byPosition(a, b, k) ==
    IF a = << >> THEN b
    ELSE IF b = << >> THEN a
    ELSE IF Head(b).pos < Head(a).pos
    THEN << Head(b) >> \o byPosition(a, Tail(b), k)
    ELSE << Head(a) >> \o byPosition(Tail(a), b, k)

RECURSIVE midiInput(_, _)
midiInput(sources, outs) ==
    IF sources = << >> THEN << >>
    ELSE byPosition(outs[Head(sources)], midiInput(Tail(sources), outs), 0)

\* A node's processBlock by the class of its processor.
nodeBlock(node, blockSize, midi) ==
    IF node.kind = "midi" THEN processBlock(node.proc, blockSize, midi)
    ELSE IF node.kind = "osc" THEN oscProcessBlock(node.proc, blockSize, midi)
    ELSE [ p |-> node.proc, out |-> << >>, tr |-> [s \in 1..blockSize |-> node.proc] ]

RECURSIVE renderNodes(_, _, _, _)
\* G is [heap, outs, tr]: the heap, and per rendered node its buffer and
\* its per-sample states.
renderNodes(G, ids, conns, blockSize) ==
    IF ids = << >> THEN G
    ELSE LET n == Head(ids)
             sources == ascending({ c[1] : c \in { d \in conns : d[2] = n } })
             res == nodeBlock(G.heap[n], blockSize, midiInput(sources, G.outs))
         IN renderNodes([ heap |-> [G.heap EXCEPT ![n].proc = res.p],
                          outs |-> [G.outs EXCEPT ![n] = res.out],
                          tr |-> [G.tr EXCEPT ![n] = res.tr] ],
                        Tail(ids), conns, blockSize)

(***************************************************************************)
(* The command session (Main.cpp): InputProcessor::process_line            *)
(***************************************************************************)
\* The letter bindings left by bind_all_letters_and_params_random are fixed
\* at compile time; a session is checked under each of these.
PulseParams == { << 60, 1, 1 >>, << 60, 2, 1 >>, << 30, 1, 1 >>, << 60, 1, 0 >>,
                 << 60, 0, 1 >>, << 60, 0, 0 >>, << 0, 1, 1 >> }

\* x and y carry the outer pulse's parameters, i the inner pulse's.
RegWith(outer, inner) ==
    [ l \in {"a", "b", "c", "x", "y", "i"} |->
        IF l = "a" THEN Binding("sin", << 66 >>)
        ELSE IF l = "b" THEN Binding("square", << 60 >>)
        ELSE IF l = "c" THEN Binding("filter", << 2000 >>)
        ELSE IF l \in {"x", "y"} THEN Binding("midi", outer)
        ELSE Binding("midi", inner) ]

DefaultReg == RegWith(<< 120, 1, 1 >>, << 120, 1, 1 >>)

\* The playback strings of the compiler's specification: every string of at
\* most MaxLine characters over Alphabet, and the strings the documentation
\* names.
Alphabet == {"a", "c", "x", "(", ")", " "}

NamedLines ==
    { << "x", "(", "a", ")", " ", "x", "(", "b", ")" >>,
      << "x", "(", "a", " ", "b", ")" >>,
      << "x", "(", "a", "b", ")" >>,
      << "a", " ", "b" >>,
      << "a", " ", "c", " ", "b" >>,
      << "a", "b", "c" >>,
      << "a", "c", "b" >>,
      << "x", "x", "(", "a", ")" >>,
      << "y", "(", "i", "(", "a", ")", ")" >> }

Lines == UNION { [1..n -> Alphabet] : n \in 1..MaxLine } \cup NamedLines

\* The outcomes of undefined behaviour: the process dies, or it runs on with
\* its memory corrupted, where the model says nothing more about it.
UBOutcomes == {"crashed", "corrupt"}

\* The state after main's construction of the graph, the registry and the
\* parser (whose constructor adds the output node).
InitWith(regs) ==
    /\ reg \in regs
    /\ saved_graph = << >>
    /\ heap = << AudioOutputNode >>
    /\ graphNodes = {1}
    /\ audioConns = {}
    /\ midiConns = {}
    /\ audioOut = 1
    /\ midi_pulsers = << >>
    /\ paren_depth = 0
    /\ status = "ok"
    /\ plays = 0
    /\ prepared = FALSE
    /\ now = 0
    /\ blockStart = << >>
    /\ trace = << >>
    /\ lastOut = << >>
    /\ emitted = << >>
    /\ building = << >>

\* process_line on a line that is no command: the text between the first
\* pair of quotes becomes the saved playback string.  The model follows a
\* session that captures one playback string.
CaptureFrom(lines) ==
    /\ status = "ok" /\ building = << >>
    /\ saved_graph = << >>
    /\ \E line \in lines : saved_graph' = line
    /\ UNCHANGED << reg, graphVars, status, plays, renderVars, building >>

\* The state of rendering when the graph has been rebuilt.
Unprepared ==
    /\ prepared' = FALSE
    /\ now' = 0
    /\ blockStart' = << >>
    /\ trace' = << >>
    /\ lastOut' = << >>
    /\ emitted' = << >>

\* process_line on PLAY: clear_graph, then parse_and_initialize(saved_graph).
Play ==
    /\ status = "ok" /\ building = << >>
    /\ plays < MaxPlays
    /\ \E ub \in UBOutcomes :
          Becomes(parse_and_initialize(clear_graph(Here), saved_graph, ub))
    /\ plays' = plays + 1
    /\ Unprepared
    /\ UNCHANGED << reg, saved_graph, building >>

\* process_line on PAUSE: clear_graph.
Pause ==
    /\ status = "ok" /\ building = << >>
    /\ plays < MaxPlays
    /\ Becomes(clear_graph(Here))
    /\ plays' = plays + 1
    /\ Unprepared
    /\ UNCHANGED << reg, saved_graph, building >>

\* The graph prepares its nodes at the device's sample rate before it renders.
SampleRates == {1}

PrepareToPlay ==
    /\ status = "ok"
    /\ plays > 0
    /\ ~prepared
    /\ \E newSampleRate \in SampleRates :
          heap' = [n \in DOMAIN heap |->
                     IF n \notin graphNodes THEN heap[n]
                     ELSE IF heap[n].kind = "midi"
                     THEN [heap[n] EXCEPT !.proc = prepareToPlay(@, newSampleRate)]
                     ELSE IF heap[n].kind = "osc"
                     THEN [heap[n] EXCEPT !.proc = oscPrepareToPlay(@)]
                     ELSE heap[n]]
    /\ prepared' = TRUE
    /\ now' = 0
    /\ blockStart' = heap'
    /\ trace' = [n \in graphNodes |-> << >>]
    /\ lastOut' = [n \in graphNodes |-> << >>]
    /\ emitted' = [n \in graphNodes |-> << >>]
    /\ UNCHANGED << reg, saved_graph, graphNodes, audioConns, midiConns, audioOut,
                    midi_pulsers, paren_depth, status, plays, building >>

\* The events of a block's buffer at absolute samples.
atAbsolute(out, start) ==
    [k \in 1..Len(out) |-> [t |-> start + out[k].pos, on |-> out[k].on,
                            vel |-> out[k].vel]]

\* The audio callback: the graph renders one block.
ProcessBlock ==
    /\ status = "ok"
    /\ prepared
    /\ \E blockSize \in 1..MaxBlock :
          /\ now + blockSize <= MaxTime
          /\ LET G == renderNodes([ heap |-> heap,
                                    outs |-> [n \in graphNodes |-> << >>],
                                    tr |-> [n \in graphNodes |-> << >>] ],
                                  ascending(graphNodes), midiConns, blockSize)
             IN /\ heap' = G.heap
                /\ lastOut' = G.outs
                /\ trace' = G.tr
                /\ emitted' = [n \in graphNodes |->
                                 emitted[n] \o atAbsolute(G.outs[n], now)]
          /\ now' = now + blockSize
    /\ blockStart' = heap
    /\ UNCHANGED << reg, saved_graph, graphNodes, audioConns, midiConns, audioOut,
                    midi_pulsers, paren_depth, status, plays, prepared, building >>

Capture == CaptureFrom(Lines)

Init == InitWith({DefaultReg})

Next == Capture \/ Play \/ Pause

Spec == Init /\ [][Next]_vars

(***************************************************************************)
(* Rendering: the sessions that capture one of RenderLines, PLAY it once   *)
(* and render it, under every pulse configuration of PulseParams.          *)
(***************************************************************************)
RenderLines ==
    { << "x" >>,
      << "x", "(", "a", ")" >>,
      << "x", "(", "a", " ", "b", ")" >>,
      << "x", "(", "a", "b", ")" >>,
      << "x", "(", "a", " ", "b", " ", "a", ")" >>,
      << "x", "(", "a", ")", " ", "x", "(", "b", ")" >>,
      << "y", "(", "i", "(", "a", ")", ")" >>,
      << "y", "(", "i", "(", "a", ")", " ", "b", ")" >>,
      << "x", "a" >>,
      << "y", "(", "a", " ", "i", "a", ")" >>,
      << "b", " ", "x", "(", "a", ")" >>,
      << "y", "(", "i", "a", ")" >>,
      << "y", "(", "i", "i", ")" >> }

RenderRegs == { RegWith(outer, inner) : outer \in PulseParams, inner \in PulseParams }

CaptureRender == CaptureFrom(RenderLines)

PlayOnce == plays = 0 /\ saved_graph # << >> /\ Play

InitRender == InitWith(RenderRegs)

NextRender == CaptureRender \/ PlayOnce \/ PrepareToPlay \/ ProcessBlock

SpecRender == InitRender /\ [][NextRender]_vars

(***************************************************************************)
(* SET: the sessions that rebind or set the parameters of the letters of   *)
(* SetLetters, capture one of SetLines and PLAY it once.                   *)
(***************************************************************************)
MaxToks == 2

\* '1' is bound to nothing when the session starts.
SetLetters == {"a", "1"}
SetTokens == {"sin", "midi", "bogus", "note", "on", "2", "90.0", "abc"}

NamedCommands ==
    { << "midi", "on", "2" >>,
      << "midi", "bogus", "2" >>,
      << "midi", "on", "abc" >>,
      << "midi", "on", "2", "off" >>,
      << "midi", "on", "2", "bogus", "2" >>,
      << "note", "2", "bogus", "2" >>,
      << "sin", "note", "90.0" >> }

\* The tokens after the letter of a SET line.
SetCommands == UNION { [1..n -> SetTokens] : n \in 0..MaxToks } \cup NamedCommands

SetLines == { << "a" >>, << "1" >>, << "x", "(", "a", ")" >> }

\* A SET whose binding the nodes made from the letter share: C12 tells it
\* from SetWith.
SetWith_Shared(letter, toks) ==
    /\ status = "ok" /\ building = << >>
    /\ LET r == execute_bind_command(reg, letter, toks)
       IN /\ reg' = r.reg
          /\ status' = IF r.error = "" THEN "ok" ELSE "terminated"
          /\ heap' = [n \in DOMAIN heap |->
                        IF heap[n].letter = letter /\ letter \in DOMAIN r.reg
                        THEN create(letter, r.reg[letter]) ELSE heap[n]]
    /\ UNCHANGED << saved_graph, graphNodes, audioConns, midiConns, audioOut,
                    midi_pulsers, paren_depth, plays, renderVars, building >>

\* process_line on "SET <letter> <toks>": execute_bind_command, whose
\* exceptions nothing catches.
SetWith(letter, toks) ==
    /\ status = "ok" /\ building = << >>
    /\ LET r == execute_bind_command(reg, letter, toks)
       IN /\ reg' = r.reg
          /\ status' = IF r.error = "" THEN "ok" ELSE "terminated"
    /\ UNCHANGED << saved_graph, graphVars, plays, renderVars, building >>

Set == \E letter \in SetLetters : \E toks \in SetCommands : SetWith(letter, toks)

CaptureSet == CaptureFrom(SetLines)

NextSet == CaptureSet \/ Set \/ PlayOnce

SpecSet == Init /\ [][NextSet]_vars

(***************************************************************************)
(* The command context and the render context side by side: PLAY runs on   *)
(* the thread of main, the device's callback renders the graph on its own, *)
(* and nothing orders the two.  The compile of PLAY goes call by call on   *)
(* the graph: the clear, then for each letter the addNode and after it its *)
(* connections and flags, for each parenthesis its step, and the           *)
(* connections at the end of each word.                                    *)
(***************************************************************************)
RaceLines ==
    { << "x", "(", "a", ")" >>,
      << "x", "(", "c", "a", ")" >>,
      << "x", "(", "x", "a", ")" >>,
      << "a", "x", "c" >>,
      << "a", "c" >>,
      << "a", " ", "x", "(", "a", ")" >> }

RaceReg == RegWith(<< 60, 1, 1 >>, << 60, 1, 1 >>)

\* What is left to compile when initialize_word starts on the first of ws.
StartOn(ws) ==
    IF ws = << >> THEN << >>
    ELSE [ words |-> Tail(ws), word |-> Head(ws), node |-> 0,
           need_to_inc |-> WordLocals.need_to_inc,
           orphans |-> WordLocals.orphans,
           effects_tail |-> WordLocals.effects_tail,
           prev_was_midi |-> WordLocals.prev_was_midi ]

\* process_line on PLAY, up to the return of clear_graph.
PlayBegin ==
    /\ status = "ok" /\ building = << >>
    /\ plays < MaxPlays
    /\ saved_graph # << >>
    /\ Becomes(clear_graph(Here))
    /\ building' = StartOn(Words(saved_graph, 1, << >>))
    /\ plays' = plays + 1
    /\ Unprepared
    /\ UNCHANGED << reg, saved_graph >>

\* The parse state of the compile in progress.
HereBuilding ==
    [Here EXCEPT !.need_to_inc = building.need_to_inc,
                 !.orphans = building.orphans,
                 !.effects_tail = building.effects_tail,
                 !.prev_was_midi = building.prev_was_midi]

\* The next step of initialize_word from parse state P: the parse state it
\* leaves, the node added and waiting for its connections, and whether the
\* word's character was used up.
StepOf(P, ub) ==
    IF building.node # 0
    THEN LET B == DirectStep(P, building.node)
             C == ParentStep(B, building.node, ub)
         IN [ P |-> IF C.status # "ok" THEN C ELSE KindStep(C, building.node),
              node |-> 0, word |-> building.word, ended |-> FALSE ]
    ELSE IF building.word = << >>
    THEN [ P |-> EndOfWord(P), node |-> 0, word |-> << >>, ended |-> TRUE ]
    ELSE LET ch == Head(building.word) IN
         IF ch \in {"(", ")"} \/ ch \notin DOMAIN P.reg
         THEN [ P |-> Char(P, ch, ub), node |-> 0, word |-> Tail(building.word),
                ended |-> FALSE ]
         ELSE [ P |-> addNode(P, create(ch, P.reg[ch])), node |-> Len(P.heap) + 1,
                word |-> Tail(building.word), ended |-> FALSE ]

\* One call of the compile on the graph.
BuildStep ==
    /\ status = "ok" /\ building # << >>
    /\ \E ub \in UBOutcomes :
          LET r == StepOf(HereBuilding, ub) IN
          /\ Becomes(r.P)
          /\ building' =
                IF r.ended THEN StartOn(building.words)
                ELSE [ words |-> building.words, word |-> r.word, node |-> r.node,
                       need_to_inc |-> r.P.need_to_inc,
                       orphans |-> r.P.orphans,
                       effects_tail |-> r.P.effects_tail,
                       prev_was_midi |-> r.P.prev_was_midi ]
    /\ Unprepared
    /\ UNCHANGED << reg, saved_graph, plays >>

CaptureRace == CaptureFrom(RaceLines)

InitRace == InitWith({RaceReg})

NextRace == CaptureRace \/ PlayBegin \/ BuildStep \/ PrepareToPlay \/ ProcessBlock

SpecRace == InitRace /\ [][NextRace]_vars

(***************************************************************************)
(* Reading a state                                                         *)
(***************************************************************************)
Pulses == { n \in graphNodes : heap[n].kind = "midi" }
Oscillators == { n \in graphNodes : heap[n].kind = "osc" }
NodesOf(letter) == { n \in graphNodes : heap[n].letter = letter }

\* The samples of the last rendered block (1 is its first), the absolute
\* sample of each, and a node's processor before and after each.
BlockSamples == IF prepared /\ now > 0 THEN 1..Len(trace[audioOut]) ELSE {}
AbsoluteSample(s) == now - Len(trace[audioOut]) + s - 1
Before(n, s) == IF s = 1 THEN blockStart[n].proc ELSE trace[n][s - 1]
After(n, s) == trace[n][s]
\* The events node n left at sample s of the last block.
EventsAt(n, s) ==
    { lastOut[n][k] : k \in { j \in 1..Len(lastOut[n]) : lastOut[n][j].pos = s - 1 } }
\* The engine entered AWAITING_NOTE_ON's transition at sample s.
AwaitingEntryAt(n, s) ==
    \/ Before(n, s).isInitialCycle /\ ~After(n, s).isInitialCycle
    \/ After(n, s).loopCount > Before(n, s).loopCount

\* An engine that runs: its period is positive.
Period(p) == p.samplesForOnDuration + p.samplesForOffDuration
Ungated(n) == prepared /\ n \in Pulses /\ ~heap[n].proc.isMidiInputGatingActive
Gated(n) == prepared /\ n \in Pulses /\ heap[n].proc.isMidiInputGatingActive
Running(n) == heap[n].proc.beatsOn > 0 /\ heap[n].proc.samplesPerBeat > 0

OnsOf(n) == SelectSeq(emitted[n], LAMBDA e : e.on)
OffsOf(n) == SelectSeq(emitted[n], LAMBDA e : ~e.on)

(***************************************************************************)
(* C1.  An ungated pulse with beatsOn > 0 (and a positive number of        *)
(* samples per beat) has, after prepareToPlay, sent an On at exactly the   *)
(* samples k*(onDuration+offDuration) and an Off at exactly the samples    *)
(* k*(onDuration+offDuration)+onDuration rendered so far, in that order of *)
(* time; and bpm=120, on=1, off=1 at 48 kHz gives onDuration =             *)
(* offDuration = 24,000 samples.                                           *)
(***************************************************************************)
ExpectedOns(p, T) ==
    { k * Period(p) : k \in { j \in 0..T : j * Period(p) < T } }
ExpectedOffs(p, T) ==
    { k * Period(p) + p.samplesForOnDuration :
        k \in { j \in 0..T : j * Period(p) + p.samplesForOnDuration < T } }

C1_UngatedSchedule ==
    /\ \A n \in graphNodes :
          (Ungated(n) /\ Running(n)) =>
              LET p == heap[n].proc
                  ons == OnsOf(n)
                  offs == OffsOf(n)
              IN /\ { ons[k].t : k \in 1..Len(ons) } = ExpectedOns(p, now)
                 /\ { offs[k].t : k \in 1..Len(offs) } = ExpectedOffs(p, now)
                 /\ Len(ons) = Cardinality(ExpectedOns(p, now))
                 /\ Len(offs) = Cardinality(ExpectedOffs(p, now))
                 /\ \A k \in 1..(Len(emitted[n]) - 1) :
                       emitted[n][k].t <= emitted[n][k + 1].t
    /\ LET p == prepareToPlay(MidiBeatPulseProcessor(120, 1, 1), 48000)
       IN p.samplesForOnDuration = 24000 /\ p.samplesForOffDuration = 24000

C1_Witness ==
    \E n \in graphNodes :
        /\ Ungated(n) /\ Running(n)
        /\ heap[n].proc.samplesForOffDuration > 0
        /\ Len(OnsOf(n)) >= 3 /\ Len(OffsOf(n)) >= 2

(***************************************************************************)
(* C2.  For an ungated pulse with N = num_connections claimed slots, the   *)
(* On of cycle k (k = 0 first) carries slot (k mod max(N,1)) + 1, and      *)
(* loopCount is one less than the number of cycles entered: it is not      *)
(* incremented on the first cycle and by one on every later one.           *)
(***************************************************************************)
C2_RoundRobin ==
    \A n \in graphNodes :
        (Ungated(n) /\ Running(n)) =>
            LET p == heap[n].proc
                ons == OnsOf(n)
            IN /\ \A k \in 1..Len(ons) :
                     /\ ons[k].t = (k - 1) * Period(p)
                     /\ ons[k].vel = ((k - 1) % Max(p.num_connections, 1)) + 1
               /\ p.loopCount = IF now = 0 THEN 0 ELSE (now - 1) \div Period(p)

C2_Witness ==
    \E n \in graphNodes :
        /\ Ungated(n) /\ Running(n)
        /\ heap[n].proc.num_connections = 2
        /\ Len(OnsOf(n)) >= 4
        /\ [k \in 1..4 |-> OnsOf(n)[k].vel] = << 1, 2, 1, 2 >>

(***************************************************************************)
(* C3.  As claimed: when a gated pulse (beatsOn > 0) reaches an AwaitingOn *)
(* boundary while its ancestor's gate is not open, the transition is       *)
(* suppressed: the engine stays awaiting and emits no On, to re-check the  *)
(* gate at the following samples.                                          *)
(***************************************************************************)
SuppressedAt(n, s) ==
    /\ Gated(n) /\ Running(n)
    /\ AwaitingEntryAt(n, s)
    /\ ~After(n, s).externalGatingNoteActive

C3_StaysAwaiting ==
    \A n \in graphNodes : \A s \in BlockSamples :
        SuppressedAt(n, s) =>
            /\ After(n, s).currentCycleState = "AWAITING_NOTE_ON"
            /\ \A e \in EventsAt(n, s) : ~e.on

(***************************************************************************)
(* C3, amended.  When a gated pulse (beatsOn > 0, a positive number of     *)
(* samples per beat) reaches an AwaitingOn boundary while its ancestor's   *)
(* gate is not open, it emits no On but the cycle runs on: the engine      *)
(* moves to NoteOn and schedules its next transition at +onDuration.  The  *)
(* gate is looked at again only at the next AwaitingOn boundary: every On  *)
(* is emitted at a scheduled boundary, a multiple of                       *)
(* onDuration+offDuration, at which the gate is open.                      *)
(***************************************************************************)
C3_CycleRunsOn ==
    \A n \in graphNodes : \A s \in BlockSamples :
        (Gated(n) /\ Running(n)) =>
            /\ SuppressedAt(n, s) =>
                  /\ \A e \in EventsAt(n, s) : ~e.on
                  /\ After(n, s).currentCycleState = "NOTE_IS_ON"
                  /\ After(n, s).nextStateChangeGlobalSample =
                        AbsoluteSample(s) + heap[n].proc.samplesForOnDuration
            /\ (\E e \in EventsAt(n, s) : e.on) =>
                  /\ AwaitingEntryAt(n, s)
                  /\ After(n, s).externalGatingNoteActive
                  /\ AbsoluteSample(s) % Period(heap[n].proc) = 0

\* A boundary was suppressed, and the gate has opened later in the cycle
\* without an On.
C3_Witness ==
    \E n \in graphNodes : \E s \in BlockSamples : \E u \in BlockSamples :
        /\ SuppressedAt(n, s)
        /\ u > s
        /\ ~Before(n, u).externalGatingNoteActive
        /\ After(n, u).externalGatingNoteActive
        /\ ~After(n, u).ourGeneratedNoteIsOn
        /\ After(n, u).currentCycleState = "NOTE_IS_ON"

(***************************************************************************)
(* C4.  Forced close: whenever the ancestor's gate closes at a sample      *)
(* (it was open before the sample and is closed once the sample's incoming *)
(* events are applied) while the gated pulse has a generated note active,  *)
(* the pulse emits an Off carrying the note's slot at that same sample and *)
(* clears its active flag, wherever its own scheduled boundary lies.       *)
(***************************************************************************)
GateClosesAt(n, s) ==
    /\ Gated(n)
    /\ Before(n, s).externalGatingNoteActive
    /\ ~After(n, s).externalGatingNoteActive
    /\ Before(n, s).ourGeneratedNoteIsOn

C4_ForcedClose ==
    \A n \in graphNodes : \A s \in BlockSamples :
        GateClosesAt(n, s) =>
            /\ \E e \in EventsAt(n, s) : ~e.on /\ e.vel = Before(n, s).velocity
            /\ ~After(n, s).ourGeneratedNoteIsOn

\* The gate closes on an active note at a sample that is not the pulse's own
\* scheduled boundary.
C4_Witness ==
    \E n \in graphNodes : \E s \in BlockSamples :
        /\ GateClosesAt(n, s)
        /\ Before(n, s).nextStateChangeGlobalSample # AbsoluteSample(s)

(***************************************************************************)
(* C5.  Nested gating: an oscillator that is a channel-filtered child of   *)
(* pulse i, itself a channel-filtered child of pulse y, is sounding at a   *)
(* sample only if i's generated note is on and y's most recent event is an *)
(* On carrying i's slot.                                                   *)
(***************************************************************************)
FilteredChild(parent, child) ==
    /\ << parent, child >> \in midiConns
    /\ IF heap[child].kind = "osc"
       THEN heap[child].proc.midiTriggered /\ ~heap[child].proc.open_on_all_channels
       ELSE heap[child].kind = "midi" /\ heap[child].proc.isMidiInputGatingActive
               /\ heap[child].proc.is_listening_velocity

\* The events node n has left up to absolute sample t, in order.
EventsUpTo(n, t) == SelectSeq(emitted[n], LAMBDA e : e.t <= t)

GateOpenFor(y, i, t) ==
    LET es == EventsUpTo(y, t) IN
    /\ es # << >>
    /\ es[Len(es)].on
    /\ es[Len(es)].vel = heap[i].proc.listening_velocity

C5_NestedGating ==
    prepared =>
        \A y \in Pulses : \A i \in Pulses : \A a \in Oscillators :
            (FilteredChild(y, i) /\ FilteredChild(i, a)) =>
                \A s \in BlockSamples :
                    After(a, s).isPlaying =>
                        /\ After(i, s).ourGeneratedNoteIsOn
                        /\ GateOpenFor(y, i, AbsoluteSample(s))

(***************************************************************************)
(* Compiled strings                                                        *)
(***************************************************************************)
\* The last PLAY compiled line, to its end.
Compiled(line) == saved_graph = line /\ plays > 0 /\ status = "ok" /\ graphNodes # {audioOut}

LineXaXb == << "x", "(", "a", ")", " ", "x", "(", "b", ")" >>
LineXab == << "x", "(", "a", "b", ")" >>
LineXaSpaceB == << "x", "(", "a", " ", "b", ")" >>
LineAB == << "a", " ", "b" >>
LineACB == << "a", " ", "c", " ", "b" >>
LineABC == << "a", "b", "c" >>

Slot(n) == heap[n].proc.velocity
ClaimedSlots(n) == heap[n].proc.num_connections

\* a and b render alike over the last block.
SoundTogether(a, b) ==
    \A s \in BlockSamples : After(a, s).isPlaying = After(b, s).isPlaying

(***************************************************************************)
(* C6.  As claimed: compiling x(a) x(b) makes a and b channel-filtered     *)
(* children of one pulse x, with different slots.                          *)
(***************************************************************************)
C6_SiblingsOfOnePulse ==
    Compiled(LineXaXb) =>
        \E x \in Pulses : \E a \in NodesOf("a") : \E b \in NodesOf("b") :
            /\ FilteredChild(x, a) /\ FilteredChild(x, b)
            /\ Slot(a) # Slot(b)

(***************************************************************************)
(* C6, amended.  Compiling x(a) x(b) makes two pulse nodes, one for each   *)
(* occurrence of x: a is the channel-filtered child of the first and b of  *)
(* the second, each with slot 1 of a pulse that has one claimed slot, so   *)
(* the two pulses' cycles sound a and b together and nothing alternates.   *)
(***************************************************************************)
C6_TwoPulses ==
    Compiled(LineXaXb) =>
        \E x1 \in NodesOf("x") : \E x2 \in NodesOf("x") :
        \E a \in NodesOf("a") : \E b \in NodesOf("b") :
            /\ x1 < x2
            /\ NodesOf("x") = {x1, x2} /\ NodesOf("a") = {a} /\ NodesOf("b") = {b}
            /\ midiConns = { << x1, a >>, << x2, b >> }
            /\ FilteredChild(x1, a) /\ FilteredChild(x2, b)
            /\ Slot(a) = 1 /\ Slot(b) = 1
            /\ ClaimedSlots(x1) = 1 /\ ClaimedSlots(x2) = 1
            /\ prepared => SoundTogether(a, b)

C6_Witness ==
    /\ Compiled(LineXaXb) /\ prepared /\ now > 0
    /\ \A x \in NodesOf("x") : Len(OnsOf(x)) >= 2
    /\ \E a \in NodesOf("a") : \E b \in NodesOf("b") : \E s \in BlockSamples :
          After(a, s).isPlaying /\ After(b, s).isPlaying

(***************************************************************************)
(* C7.  As claimed: compiling x(a b) gives a and b the same slot under x.  *)
(***************************************************************************)
C7_SameSlotAcrossSpace ==
    Compiled(LineXaSpaceB) =>
        \E x \in Pulses : \E a \in NodesOf("a") : \E b \in NodesOf("b") :
            /\ FilteredChild(x, a) /\ FilteredChild(x, b)
            /\ Slot(a) = Slot(b)

(***************************************************************************)
(* C7, amended.  Compiling x(ab), a and b in one word inside the same open *)
(* parenthesis, gives a and b the same slot under x, so they sound         *)
(* together whenever that slot is active; in x(a b) the space ends the     *)
(* word and b claims a new slot: a has slot 1, b slot 2, of the two x      *)
(* claims, and the two never sound at the same sample.                     *)
(***************************************************************************)
C7_SameWordSameSlot ==
    /\ Compiled(LineXab) =>
          \E x \in NodesOf("x") : \E a \in NodesOf("a") : \E b \in NodesOf("b") :
              /\ NodesOf("x") = {x}
              /\ FilteredChild(x, a) /\ FilteredChild(x, b)
              /\ Slot(a) = 1 /\ Slot(b) = 1 /\ ClaimedSlots(x) = 1
              /\ prepared => SoundTogether(a, b)
    /\ Compiled(LineXaSpaceB) =>
          \E x \in NodesOf("x") : \E a \in NodesOf("a") : \E b \in NodesOf("b") :
              /\ NodesOf("x") = {x}
              /\ FilteredChild(x, a) /\ FilteredChild(x, b)
              /\ Slot(a) = 1 /\ Slot(b) = 2 /\ ClaimedSlots(x) = 2
              /\ prepared =>
                    \A s \in BlockSamples :
                        ~(After(a, s).isPlaying /\ After(b, s).isPlaying)

C7_Witness ==
    /\ Compiled(LineXab) /\ prepared /\ now > 0
    /\ \E x \in NodesOf("x") : Len(OnsOf(x)) >= 2
    /\ \E a \in NodesOf("a") : \E b \in NodesOf("b") : \E s \in BlockSamples :
          After(a, s).isPlaying /\ After(b, s).isPlaying

(***************************************************************************)
(* C8.  Words are independent audio chains: no audio connection links      *)
(* nodes created in different words (a connection goes to the output node  *)
(* or to a node of the source's own word); for "a b" both oscillators are  *)
(* connected to the output node and there is no other connection.          *)
(***************************************************************************)
RECURSIVE WordOfLetters(_, _, _)
\* For each letter of the line in order, the number of the word it is in.
WordOfLetters(line, k, w) ==
    IF k > Len(line) THEN << >>
    ELSE IF line[k] = " " THEN WordOfLetters(line, k + 1, w)
    ELSE LET here == IF k = 1 \/ line[k - 1] = " " THEN w + 1 ELSE w
         IN IF line[k] \in {"(", ")"} THEN WordOfLetters(line, k + 1, here)
            ELSE << here >> \o WordOfLetters(line, k + 1, here)

\* The k-th letter of the line made node audioOut + k.
WordOfNode(n) == WordOfLetters(saved_graph, 1, 0)[n - audioOut]

C8_WordsAreIndependent ==
    /\ \A c \in audioConns :
          /\ c[1] # audioOut
          /\ c[2] = audioOut \/ WordOfNode(c[1]) = WordOfNode(c[2])
    /\ Compiled(LineAB) =>
          \E a \in NodesOf("a") : \E b \in NodesOf("b") :
              /\ audioConns = { << a, audioOut >>, << b, audioOut >> }
              /\ midiConns = {}

\* A string of several words with an effect after the first word, compiled.
C8_Witness ==
    /\ plays > 0 /\ status = "ok"
    /\ \E c \in audioConns : \E d \in audioConns :
          /\ c[2] # audioOut /\ heap[d[1]].kind = "effect"
          /\ WordOfNode(c[1]) = 1
          /\ WordOfNode(d[1]) = 2

(***************************************************************************)
(* C9.  As claimed: compiling a c b yields the audio connections a -> c,   *)
(* b -> c and c -> output.                                                 *)
(***************************************************************************)
C9_BothIntoEffect ==
    Compiled(LineACB) =>
        \E a \in NodesOf("a") : \E b \in NodesOf("b") : \E c \in NodesOf("c") :
            { << a, c >>, << b, c >>, << c, audioOut >> } \subseteq audioConns

(***************************************************************************)
(* C9, amended.  Compiling a c b, three words of one letter, connects a,   *)
(* c and b each to the output node and nothing to c; a -> c, b -> c and    *)
(* c -> output are the connections of the one word abc.                    *)
(***************************************************************************)
C9_ThreeWords ==
    /\ Compiled(LineACB) =>
          \E a \in NodesOf("a") : \E b \in NodesOf("b") : \E c \in NodesOf("c") :
              audioConns = { << a, audioOut >>, << c, audioOut >>, << b, audioOut >> }
    /\ Compiled(LineABC) =>
          \E a \in NodesOf("a") : \E b \in NodesOf("b") : \E c \in NodesOf("c") :
              audioConns = { << a, c >>, << b, c >>, << c, audioOut >> }

C9_Witness == Compiled(LineACB) /\ Cardinality(audioConns) = 3

(***************************************************************************)
(* C10.  The compiler fails with UnbalancedParentheses exactly when the    *)
(* playback string is unbalanced: at a `)` met at depth 0, or at the end   *)
(* of the string if the depth is not 0; never for a balanced string.       *)
(***************************************************************************)
RECURSIVE DepthAfter(_, _)
\* The number of `(` less the number of `)` in the first k characters.
DepthAfter(line, k) ==
    IF k = 0 THEN 0
    ELSE DepthAfter(line, k - 1)
            + (IF line[k] = "(" THEN 1 ELSE IF line[k] = ")" THEN -1 ELSE 0)

Balanced(line) ==
    /\ \A k \in 1..Len(line) : DepthAfter(line, k) >= 0
    /\ DepthAfter(line, Len(line)) = 0

C10_UnbalancedParentheses ==
    [][Play => ((status' = "UnbalancedParentheses") <=> ~Balanced(saved_graph))]_vars

(***************************************************************************)
(* C11.  Whenever SET <letter> <typeName> [<key> <value>]... succeeds, the *)
(* letter's parameter vector is the type's schema defaults in schema       *)
(* order with exactly the overridden keys replaced (the last value given   *)
(* for a key), whatever the letter was bound to before; with no overrides  *)
(* the processor made from the binding has exactly the schema defaults     *)
(* (midi: bpm 120, on 1, off 1).                                           *)
(***************************************************************************)
\* The last value the command gives for key, or dflt if it gives none.
Overridden(toks, key, dflt) ==
    LET given == { j \in 1..((Len(toks) - 1) \div 2) : toks[2 * j] = key }
    IN IF given = {} THEN dflt
       ELSE TokenNumber[toks[2 * (CHOOSE j \in given : \A k \in given : k <= j) + 1]]

ExpectedParams(toks) ==
    LET typeName == toks[1] IN
    [ I \in 1..Len(names(typeName)) |->
        Overridden(toks, names(typeName)[I], defaults(typeName)[I]) ]

C11_DefaultsWithOverrides ==
    \A letter \in SetLetters : \A toks \in SetCommands :
        LET r == execute_bind_command(reg, letter, toks) IN
        (toks # << >> /\ toks[1] \in KnownTypes /\ r.error = "") =>
            /\ r.reg[letter] = Binding(toks[1], ExpectedParams(toks))
            /\ Len(toks) = 1 =>
                  /\ create(letter, r.reg[letter]).params = defaults(toks[1])
                  /\ toks[1] = "midi" =>
                        LET p == create(letter, r.reg[letter]).proc
                        IN p.bpm = 120 /\ p.beatsOn = 1 /\ p.beatsOff = 1

\* a, bound to sin 66 at the start, has had its note set and has then been
\* bound to midi with an override; '1' has been bound too.
C11_Witness ==
    /\ status = "ok"
    /\ reg["a"] = Binding("midi", << 120, 2, 1 >>)
    /\ "1" \in DOMAIN reg /\ reg["1"] = Binding("sin", << 90 >>)

(***************************************************************************)
(* C12.  Snapshot isolation: a SET command (every step that is no PLAY)   *)
(* changes no node of the graph, no connection and no slot; the nodes a    *)
(* PLAY makes have the type and the parameters their letters are bound to  *)
(* when it runs.                                                           *)
(***************************************************************************)
C12_SnapshotIsolation ==
    [][/\ plays' = plays =>
             UNCHANGED << heap, graphNodes, audioConns, midiConns, audioOut >>
       /\ PlayOnce =>
             \A n \in graphNodes' \ {audioOut'} :
                 /\ heap'[n].typeName = reg[heap'[n].letter].typeName
                 /\ heap'[n].params = reg[heap'[n].letter].params]_vars

\* A node made from a's binding is in the graph, and a has been bound to
\* another type since.
C12_Witness ==
    /\ status = "ok" /\ plays = 1
    /\ \E n \in graphNodes :
          /\ heap[n].letter = "a"
          /\ heap[n].typeName = "midi" /\ heap[n].params = << 120, 2, 1 >>
          /\ reg["a"].typeName = "sin"

(***************************************************************************)
(* C13.  Every occurrence of a letter in the playback string makes a node  *)
(* of its own: a PLAY that compiles the string to its end leaves the       *)
(* output node and one new node for each letter, in order, each made from  *)
(* its letter's binding; the two pulses of x(a) x(b) have one claimed slot *)
(* each.                                                                   *)
(***************************************************************************)
LettersOf(line) == SelectSeq(line, LAMBDA ch : ch \notin {"(", ")", " "})

C13_NodePerOccurrence ==
    [][(Play /\ status' = "ok") =>
          LET letters == LettersOf(saved_graph) IN
          /\ graphNodes' = { audioOut' + k : k \in 0..Len(letters) }
          /\ \A k \in 1..Len(letters) :
                /\ audioOut' + k \notin DOMAIN heap
                /\ heap'[audioOut' + k].letter = letters[k]
                /\ heap'[audioOut' + k].params = reg[letters[k]].params
          /\ saved_graph = LineXaXb =>
                \A n \in graphNodes' :
                    heap'[n].letter = "x" => heap'[n].proc.num_connections = 1]_vars

\* A string with the letter a twice has been compiled: two nodes of a.
C13_Witness ==
    /\ plays > 0 /\ status = "ok"
    /\ Len(SelectSeq(saved_graph, LAMBDA ch : ch = "a")) = 2
    /\ Cardinality(NodesOf("a")) = 2

(***************************************************************************)
(* C14.  Every error raised by a SET line or by compiling the playback     *)
(* string on PLAY is recoverable: after every line the session is still    *)
(* accepting commands.                                                     *)
(***************************************************************************)
C14_ErrorsAreRecoverable == [][status' = "ok"]_vars

(***************************************************************************)
(* C15.  bind replaces a letter's binding atomically: a SET command that   *)
(* fails leaves the registry, and so the letter's prior type and           *)
(* parameters, unchanged.                                                  *)
(***************************************************************************)
C15_AtomicBind ==
    [][\A letter \in SetLetters : \A toks \in NamedCommands :
          (SetWith(letter, toks) /\ execute_bind_command(reg, letter, toks).error # "")
              => reg' = reg]_vars

(***************************************************************************)
(* C16.  A pulse configured with on=0 never emits an On event: no On has   *)
(* left it, for every bpm, every off value and every sequence of blocks    *)
(* and of incoming gate events.                                            *)
(***************************************************************************)
C16_NoOnWithoutBeatsOn ==
    prepared =>
        \A n \in Pulses : heap[n].proc.beatsOn = 0 => OnsOf(n) = << >>

(***************************************************************************)
(* C17.  A pulse whose onDuration and offDuration are both zero is inert:  *)
(* its sample clock has advanced by the size of every block rendered and   *)
(* no event has ever left it, whatever arrived at its input and whether or *)
(* not gating is enabled.                                                  *)
(***************************************************************************)
C17_InertPulse ==
    prepared =>
        \A n \in Pulses :
            inert(heap[n].proc) =>
                /\ heap[n].proc.globalSampleCount = now
                /\ emitted[n] = << >>

(***************************************************************************)
(* C18.  The graph a PLAY builds depends only on the playback string and   *)
(* the letter bindings: whatever commands came before, a PLAY of a string  *)
(* with balanced parentheses leaves the node kinds and parameters, the     *)
(* audio and MIDI connections and the slots that compiling the string      *)
(* with a parser in its first state leaves.                                *)
(***************************************************************************)
\* The graph of parse state P with its node ids counted from the output node.
ShapeOf(P) ==
    [ nodes |-> { << n - P.audioOut, P.heap[n] >> : n \in P.graphNodes },
      audio |-> { << c[1] - P.audioOut, c[2] - P.audioOut >> : c \in P.audioConns },
      midi |-> { << c[1] - P.audioOut, c[2] - P.audioOut >> : c \in P.midiConns } ]

\* The parse state with the Parser members as its constructor leaves them.
FirstParser == [Here EXCEPT !.midi_pulsers = << >>, !.paren_depth = 0]

C18_PlayDependsOnStringOnly ==
    [][(Play /\ Balanced(saved_graph) /\ status' = "ok") =>
          ShapeOf(Here') =
              ShapeOf(parse_and_initialize(clear_graph(FirstParser), saved_graph,
                                           "crashed"))]_vars

(***************************************************************************)
(* C19.  After PAUSE, and after the clearing step of PLAY, the graph holds *)
(* exactly one node, a new output node, and no connection, whatever graph  *)
(* there was before; no node of the previous graph is in it.               *)
(***************************************************************************)
Cleared(P, before) ==
    /\ P.graphNodes = {P.audioOut}
    /\ P.heap[P.audioOut].kind = "out"
    /\ P.audioConns = {} /\ P.midiConns = {}
    /\ P.graphNodes \cap before = {}

C19_ClearLeavesOutputOnly ==
    [][(Pause \/ Play) =>
          /\ Cleared(clear_graph(Here), graphNodes)
          /\ Pause => Cleared(Here', graphNodes)]_vars

\* A PAUSE has cleared a graph that a PLAY had built.
C19_Witness ==
    /\ status = "ok" /\ plays = 2
    /\ LettersOf(saved_graph) # << >>
    /\ graphNodes = {audioOut} /\ audioConns = {} /\ midiConns = {}
    /\ \E n \in 1..(audioOut - 1) : heap[n].kind # "out"

(***************************************************************************)
(* C20.  A graph rebuild on PLAY is atomic for the render context: every   *)
(* block is rendered on the complete old graph, on the cleared graph or on *)
(* the completely built new graph, never while the compile has added       *)
(* nodes and has connections, slots or flags still to set.                 *)
(***************************************************************************)
C20_AtomicRebuild ==
    [][ProcessBlock => (building = << >> \/ graphNodes = {audioOut})]_vars

(***************************************************************************)
(* C21.  After the start-up initialisation every letter of a-z is bound to *)
(* a registered type with a full parameter vector; no SET, PLAY or PAUSE   *)
(* makes a bound letter unbound, so that no PLAY of a string whose letters *)
(* are of a-z fails on an unbound letter.                                  *)
(***************************************************************************)
\* The letters of a-z that the sessions of the model use.
StartLetters == {"a", "b", "c", "x", "y", "i"}

FullyBound(R, l) ==
    /\ is_bound(R, l)
    /\ is_known(R[l].typeName)
    /\ Len(R[l].params) = Len(names(R[l].typeName))

C21_LettersStayBound ==
    [][/\ \A l \in StartLetters : FullyBound(reg, l) /\ FullyBound(reg', l)
       /\ (Play /\ \A k \in 1..Len(saved_graph) :
                       saved_graph[k] \in StartLetters \cup {"(", ")", " "})
             => status' # "terminated"]_vars

C21_Witness ==
    /\ plays = 1 /\ status = "ok"
    /\ saved_graph = << "x", "(", "a", ")" >>
    /\ reg["a"].typeName = "midi" /\ reg["a"].params = << 120, 2, 1 >>
    /\ \E n \in graphNodes : heap[n].letter = "a" /\ heap[n].typeName = "midi"

(***************************************************************************)
(* C22.  Slot-claim rule: a letter processed at depth > 0 while the claim  *)
(* is pending adds exactly one to its parent's count of claimed slots and  *)
(* takes the new count as its slot, whatever its kind (oscillator, effect  *)
(* or pulse); a letter processed when the claim is no longer pending       *)
(* leaves the count as it is and takes the count as its slot; the count    *)
(* never decreases.                                                        *)
(***************************************************************************)
\* The parse state of the variables inside a word, with the given locals.
HereWith(pending, prev) ==
    [Here EXCEPT !.need_to_inc = pending,
                 !.prev_was_midi = prev /\ midi_pulsers # << >>]

\* The slot a node holds: an oscillator's velocity, a pulse's listening
\* velocity.
SlotIn(P, n) ==
    IF is_osc(P, n) THEN P.heap[n].proc.velocity
    ELSE P.heap[n].proc.listening_velocity

ClaimedIn(P, n) == P.heap[n].proc.num_connections

\* The rule for the letters bound to the given kinds of processor.
SlotClaimFor(kinds) ==
    (status = "ok" /\ paren_depth \in 1..Len(midi_pulsers)) =>
       \A ch \in DOMAIN reg : \A pending \in BOOLEAN : \A prev \in BOOLEAN :
          LET P == HereWith(pending, prev)
              parent == midi_pulsers[paren_depth]
              new == Len(heap) + 1
              Q == Letter(P, ch, "crashed")
          IN TypeKind(reg[ch].typeName) \in kinds =>
             /\ ClaimedIn(Q, parent) =
                   ClaimedIn(P, parent) + (IF pending THEN 1 ELSE 0)
             /\ ~Q.need_to_inc
             /\ ~is_effect(Q, new) => SlotIn(Q, new) = ClaimedIn(Q, parent)
             /\ \A n \in DOMAIN heap :
                   heap[n].kind = "midi" => ClaimedIn(Q, n) >= ClaimedIn(P, n)

C22_SlotClaim == SlotClaimFor({"osc", "effect", "midi"})

(***************************************************************************)
(* C23.  Every channel-filtered child (oscillator or pulse) of a pulse P   *)
(* holds a slot s with 1 <= s <= P's count of claimed slots, given to it   *)
(* when it is attached and never changed afterwards.                       *)
(***************************************************************************)
\* The node the compile has added and is about to attach, or 0.
Attaching == IF building = << >> THEN 0 ELSE building.node

C23_SlotInRange ==
    [][/\ (/\ BuildStep /\ status' = "ok"
           /\ Attaching # 0
           /\ paren_depth \in 1..Len(midi_pulsers)
           /\ heap[Attaching].kind \in {"osc", "midi"})
          => /\ 1 <= SlotIn(Here', Attaching)
             /\ SlotIn(Here', Attaching) <= ClaimedIn(Here', midi_pulsers[paren_depth])
       /\ \A n \in (graphNodes \cap graphNodes') \ {Attaching} :
             heap[n].kind \in {"osc", "midi"} => SlotIn(Here', n) = SlotIn(Here, n)]_vars

(***************************************************************************)
(* C24.  While a string with balanced parentheses is compiled by a fresh   *)
(* parser the stack of pulses holds at least paren_depth entries: no ')'   *)
(* pops an empty stack and no letter at depth > 0 looks up its parent past *)
(* the end of the stack, also in strings such as "(a)" and "a(b)" whose    *)
(* '(' follows no pulse letter.                                            *)
(***************************************************************************)
C24_StackCoversDepth ==
    [][(Play /\ plays = 0 /\ Balanced(saved_graph)) =>
          status' \notin UBOutcomes]_vars

(***************************************************************************)
(* C25.  For a balanced string in which every '(' directly follows a pulse *)
(* letter and every pulse letter is directly followed by '(' (whitespace   *)
(* ignored), compiled by a fresh parser, every letter at depth > 0 becomes *)
(* a channel-filtered child of exactly the pulse letter that opened its    *)
(* innermost enclosing parenthesis, also when that parenthesis was opened  *)
(* in an earlier word, and the stack of pulses is empty at the end.        *)
(***************************************************************************)
IsLetter(ch) == ch \notin {"(", ")", " "}
IsPulseLetter(ch) == IsLetter(ch) /\ ch \in DOMAIN reg /\ TypeKind(reg[ch].typeName) = "midi"

RECURSIVE EnclosingOpen(_, _, _)
\* The position of the '(' that encloses position j + 1, where d parentheses
\* closed after position j are still to be matched; 0 if there is none.
EnclosingOpen(line, j, d) ==
    IF j = 0 THEN 0
    ELSE IF line[j] = ")" THEN EnclosingOpen(line, j - 1, d + 1)
    ELSE IF line[j] = "(" THEN IF d = 0 THEN j ELSE EnclosingOpen(line, j - 1, d - 1)
    ELSE EnclosingOpen(line, j - 1, d)

RECURSIVE LastBefore(_, _)
\* The position of the last character before j that is no whitespace, or 0.
LastBefore(line, j) ==
    IF j <= 1 THEN 0
    ELSE IF line[j - 1] = " " THEN LastBefore(line, j - 1) ELSE j - 1

RECURSIVE FirstAfter(_, _)
\* The position of the first character after j that is no whitespace, or 0.
FirstAfter(line, j) ==
    IF j >= Len(line) THEN 0
    ELSE IF line[j + 1] = " " THEN FirstAfter(line, j + 1) ELSE j + 1

\* The node of the letter at position k: the nodes are added in the order of
\* the letters, after the output node.
NodeAt(P, line, k) == P.audioOut + Len(LettersOf(SubSeq(line, 1, k)))

WellFormed(line) ==
    /\ Balanced(line)
    /\ \A k \in 1..Len(line) :
          /\ line[k] = "(" =>
                LastBefore(line, k) # 0 /\ IsPulseLetter(line[LastBefore(line, k)])
          /\ IsPulseLetter(line[k]) =>
                FirstAfter(line, k) # 0 /\ line[FirstAfter(line, k)] = "("

\* Node n takes its parent's events by slot.
Filtered(P, n) ==
    IF is_osc(P, n)
    THEN P.heap[n].proc.midiTriggered /\ ~P.heap[n].proc.open_on_all_channels
    ELSE IF is_midi(P, n)
    THEN P.heap[n].proc.isMidiInputGatingActive /\ P.heap[n].proc.is_listening_velocity
    ELSE FALSE

MidiSources(P, n) == { c[1] : c \in { d \in P.midiConns : d[2] = n } }

ChildrenOfOpeners(P, line, kinds) ==
    \A k \in 1..Len(line) :
       (/\ IsLetter(line[k]) /\ DepthAfter(line, k) > 0
        /\ P.heap[NodeAt(P, line, k)].kind \in kinds) =>
          LET opener == LastBefore(line, EnclosingOpen(line, k - 1, 0))
          IN /\ MidiSources(P, NodeAt(P, line, k)) = {NodeAt(P, line, opener)}
             /\ Filtered(P, NodeAt(P, line, k))

C25_ChildOfInnermostPulse ==
    [][(Play /\ plays = 0 /\ WellFormed(saved_graph)) =>
          /\ status' = "ok"
          /\ midi_pulsers' = << >> /\ paren_depth' = 0
          /\ ChildrenOfOpeners(Here', saved_graph, {"osc", "effect", "midi"})]_vars

(***************************************************************************)
(* C25, amended.  For such a string every oscillator and pulse letter at   *)
(* depth > 0 becomes a channel-filtered child of exactly the pulse letter  *)
(* that opened its innermost enclosing parenthesis, also when that         *)
(* parenthesis was opened in an earlier word, and the stack of pulses is   *)
(* empty at the end; an effect letter at depth > 0 gets no control         *)
(* connection, since an effect accepts none.                               *)
(***************************************************************************)
EffectsUnattached(P, line) ==
    \A k \in 1..Len(line) :
       (IsLetter(line[k]) /\ is_effect(P, NodeAt(P, line, k))) =>
          MidiSources(P, NodeAt(P, line, k)) = {} /\ ~Filtered(P, NodeAt(P, line, k))

C25_OscillatorsAndPulses ==
    [][(Play /\ plays = 0 /\ WellFormed(saved_graph)) =>
          /\ status' = "ok"
          /\ midi_pulsers' = << >> /\ paren_depth' = 0
          /\ ChildrenOfOpeners(Here', saved_graph, {"osc", "midi"})
          /\ EffectsUnattached(Here', saved_graph)]_vars

C25_Witness ==
    /\ Compiled(<< "y", "(", "i", "(", "a", ")", ")" >>)
    /\ plays = 1
    /\ midi_pulsers = << >>
    /\ \E y \in NodesOf("y") : \E i \in NodesOf("i") : \E a \in NodesOf("a") :
          midiConns = { << y, i >>, << i, a >> }

(***************************************************************************)
(* C26.  The scope state of the parse lives for one compile: when a PLAY   *)
(* starts to compile, after its clear, the depth is 0 and the stack of     *)
(* pulses is empty, whatever was compiled before.                          *)
(***************************************************************************)
C26_ScopePerCompile ==
    [][Play => LET P == clear_graph(Here)
               IN P.paren_depth = 0 /\ P.midi_pulsers = << >>]_vars

(***************************************************************************)
(* C27.  As claimed: at the end of a word that contains an effect the only *)
(* audio connection into the output node is from the word's last effect;   *)
(* the oscillators after the last effect are not connected to the output   *)
(* node, and orphans are connected to it only in a word with no effect.    *)
(***************************************************************************)
\* The nodes of n's word made after n.
LaterInWord(n) ==
    { m \in graphNodes \ {audioOut} : m > n /\ WordOfNode(m) = WordOfNode(n) }

WordHasEffect(n) ==
    \E m \in graphNodes \ {audioOut} :
       WordOfNode(m) = WordOfNode(n) /\ heap[m].kind = "effect"

LastEffect(n) ==
    heap[n].kind = "effect" /\ \A m \in LaterInWord(n) : heap[m].kind # "effect"

Orphan(n) ==
    heap[n].kind = "osc" /\ \A m \in LaterInWord(n) : heap[m].kind # "effect"

C27_TailOnly ==
    (status = "ok" /\ plays > 0) =>
       \A n \in graphNodes \ {audioOut} :
          << n, audioOut >> \in audioConns <=>
             IF WordHasEffect(n) THEN LastEffect(n) ELSE Orphan(n)

(***************************************************************************)
(* C27, amended.  At the end of a word the word's last effect, if it has   *)
(* one, is connected to the output node, and so is every remaining orphan: *)
(* each oscillator after the last effect, or each oscillator of a word     *)
(* with no effect.  Nothing else of the word is connected to it.           *)
(***************************************************************************)
C27_TailAndOrphans ==
    (status = "ok" /\ plays > 0) =>
       \A n \in graphNodes \ {audioOut} :
          << n, audioOut >> \in audioConns <=> (LastEffect(n) \/ Orphan(n))

C27_Witness ==
    /\ Compiled(<< "a", "c", "a" >>)
    /\ \E n \in NodesOf("a") : \E c \in NodesOf("c") :
          n > c /\ audioConns = { << c - 1, c >>, << c, audioOut >>, << n, audioOut >> }

(***************************************************************************)
(* C28.  A node whose letter directly follows a pulse letter takes that    *)
(* pulse's events in broadcast: it reacts to every On and Off of the pulse *)
(* whatever slot the event carries, also when the node is at depth > 0 and *)
(* has a channel-filtered connection from its enclosing parent as well.    *)
(***************************************************************************)
\* The positions of the letters that directly follow a pulse letter.
DirectlyAfterPulse ==
    { k \in 2..Len(saved_graph) :
         IsLetter(saved_graph[k]) /\ IsPulseLetter(saved_graph[k - 1]) }

\* Node n took event e: an oscillator sounds or is silent, a pulse's gate
\* is open or closed.
ReactedTo(n, s, e) ==
    IF heap[n].kind = "osc" THEN After(n, s).isPlaying = e.on
    ELSE IF heap[n].kind = "midi" THEN After(n, s).externalGatingNoteActive = e.on
    ELSE TRUE

BroadcastAt(depths) ==
    (status = "ok" /\ plays > 0 /\ prepared) =>
       \A k \in DirectlyAfterPulse : \A s \in BlockSamples :
          LET pulse == NodeAt(Here, saved_graph, k - 1)
              n == NodeAt(Here, saved_graph, k)
              others == UNION { EventsAt(q, s) : q \in MidiSources(Here, n) \ {pulse} }
          IN (/\ DepthAfter(saved_graph, k) \in depths
              /\ Cardinality(EventsAt(pulse, s)) = 1 /\ others = {})
                => \A e \in EventsAt(pulse, s) : ReactedTo(n, s, e)

C28_Broadcast == BroadcastAt(0..Len(saved_graph))

(***************************************************************************)
(* C29.  Processing an effect letter changes only the orphans, the last    *)
(* effect and the graph, which gains the audio connections from every      *)
(* pending orphan and from the previous last effect into the new effect:   *)
(* the flag that the previous letter was a pulse, the depth and the stack  *)
(* of pulses are left as they were, whether or not orphans were pending.   *)
(***************************************************************************)
\* The elements of a sequence.
Range(q) == { q[k] : k \in 1..Len(q) }

EffectFrame(pendingOrphans) ==
       (/\ BuildStep /\ status' = "ok"
        /\ Attaching # 0
        /\ heap[Attaching].kind = "effect"
        /\ (building.orphans # << >>) \in pendingOrphans)
          => /\ building'.orphans = << >>
             /\ building'.effects_tail = Attaching
             /\ audioConns' = audioConns
                   \cup { << o, Attaching >> : o \in Range(building.orphans) }
                   \cup { << t, Attaching >> : t \in {building.effects_tail} \ {0} }
             /\ building'.prev_was_midi = building.prev_was_midi
             /\ paren_depth' = paren_depth
             /\ midi_pulsers' = midi_pulsers
             /\ graphNodes' = graphNodes /\ midiConns' = midiConns

C29_EffectFrame == [][EffectFrame(BOOLEAN)]_vars

(***************************************************************************)
(* C30.  A forced close changes nothing but the active-note flag and the   *)
(* Off it emits: the cycle state, the next scheduled boundary and          *)
(* loopCount are as they were, so that the boundaries after it fire at the *)
(* same samples as in a run without the forced close.                      *)
(***************************************************************************)
\* The fields of the engine that decide when its boundaries fire.
Timing(p) ==
    << p.currentCycleState, p.nextStateChangeGlobalSample, p.loopCount,
       p.isInitialCycle, p.globalSampleCount >>

\* The engine of node n at sample s of the last block after the incoming
\* events that closed its gate and before the forced close.
GateClosedAt(n, s) ==
    [ p |-> [Before(n, s) EXCEPT !.externalGatingNoteActive = FALSE],
      out |-> << >>, it |-> 1 ]

C30_ForcedCloseFrame ==
    \A n \in graphNodes : \A s \in BlockSamples :
        GateClosesAt(n, s) =>
            LET r == GateClosedAt(n, s)
                f == forcedOff(r, s - 1)
            IN /\ f.out = << noteOff(r.p.velocity, s - 1) >>
               /\ f.p = [r.p EXCEPT !.ourGeneratedNoteIsOn = FALSE]
               /\ Timing(stateChanges(f, s - 1).p) = Timing(stateChanges(r, s - 1).p)
               /\ Timing(After(n, s)) = Timing(stateChanges(r, s - 1).p)

\* A gate closes on an active note in the middle of the pulse's on time, and
\* the pulse is rendered on after it.
C30_Witness ==
    \E n \in graphNodes : \E s \in BlockSamples :
        /\ GateClosesAt(n, s)
        /\ Before(n, s).nextStateChangeGlobalSample > AbsoluteSample(s)
        /\ After(n, s).currentCycleState = "NOTE_IS_ON"
        /\ s < Len(trace[audioOut])

(***************************************************************************)
(* C31.  Inside a gated pulse the incoming gate events of sample i are     *)
(* applied before the forced-close check and before the pulse's own        *)
(* transition at i: a gate-open that arrives at the sample of an           *)
(* AWAITING_NOTE_ON boundary yields an On at that sample, and a gate-close *)
(* that arrives at that sample yields no On.                               *)
(***************************************************************************)
\* The events that reach node n at sample s of the last block.
ArrivingAt(n, s) == UNION { EventsAt(q, s) : q \in MidiSources(Here, n) }

\* Event e opens the gate of pulse n.
Opens(n, e) ==
    e.on /\ (heap[n].proc.is_listening_velocity => heap[n].proc.listening_velocity = e.vel)

\* A gate event arrives at pulse n at sample s, where it enters its
\* AWAITING_NOTE_ON transition.
GateEventAtBoundary(n, s, e) ==
    /\ Gated(n) /\ Running(n)
    /\ AwaitingEntryAt(n, s)
    /\ ArrivingAt(n, s) = {e}

C31_SampleOrdered ==
    \A n \in graphNodes : \A s \in BlockSamples : \A e \in ArrivingAt(n, s) :
        GateEventAtBoundary(n, s, e) =>
            ((\E o \in EventsAt(n, s) : o.on) <=> Opens(n, e))

C31_Witness ==
    \E n \in graphNodes : \E s, t \in BlockSamples :
        /\ \E e \in ArrivingAt(n, s) :
              GateEventAtBoundary(n, s, e) /\ Opens(n, e) /\ \E o \in EventsAt(n, s) : o.on
        /\ \E e \in ArrivingAt(n, t) :
              GateEventAtBoundary(n, t, e) /\ ~e.on /\ EventsAt(n, t) = {}

(***************************************************************************)
(* C32.  Block boundaries are not observable: with the same configuration  *)
(* and the same gate events at the same absolute samples, the events a     *)
(* pulse emits, as (absolute sample, On/Off, slot), are the same for every *)
(* partition of the samples into blocks.  A block of any size leaves every *)
(* pulse with the events and the state that blocks of one sample leave.    *)
(***************************************************************************)
RECURSIVE Singly(_, _, _, _)
\* The graph rendered from heap h for k blocks of one sample, the first at
\* absolute sample t: the heap after them and the events em grown by theirs.
Singly(h, em, t, k) ==
    IF k = 0 THEN [ heap |-> h, emitted |-> em ]
    ELSE LET G == renderNodes([ heap |-> h,
                                outs |-> [n \in graphNodes |-> << >>],
                                tr |-> [n \in graphNodes |-> << >>] ],
                              ascending(graphNodes), midiConns, 1)
         IN Singly(G.heap,
                   [n \in graphNodes |-> em[n] \o atAbsolute(G.outs[n], t)],
                   t + 1, k - 1)

C32_BlocksUnobservable ==
    [][ProcessBlock =>
          LET R == Singly(heap, emitted, now, now' - now)
          IN \A n \in Pulses :
                /\ emitted'[n] = R.emitted[n]
                /\ heap'[n].proc = R.heap[n].proc]_vars

\* A block of several samples in which a gated pulse emits after its first
\* sample.
C32_Witness ==
    /\ prepared /\ now > 0
    /\ Len(trace[audioOut]) >= 2
    /\ \E n \in Pulses : Gated(n) /\ \E k \in 1..Len(lastOut[n]) : lastOut[n][k].pos >= 1

(***************************************************************************)
(* C33.  Whenever beatsOn * sampleRate * 60 / bpm is a whole number of     *)
(* samples the on duration equals it, and likewise the off duration is     *)
(* beatsOff * sampleRate * 60 / bpm, so that the period of the cycle is    *)
(* exactly (beatsOn + beatsOff) * sampleRate * 60 / bpm samples for an     *)
(* integer sample rate and bpm > 0.                                        *)
(***************************************************************************)
\* The sample rates the durations are computed for.
TimingRates == {1, 2, 4}

\* beats * sampleRate * 60 / bpm is a whole number.
Whole(beats, rate, bpm) == (beats * rate * 60) % bpm = 0

DurationsFor(rates) ==
    \A n \in Pulses : \A newSampleRate \in rates :
        LET p == heap[n].proc
            q == prepareToPlay(p, newSampleRate)
        IN p.bpm > 0 =>
              /\ Whole(p.beatsOn, newSampleRate, p.bpm) =>
                    q.samplesForOnDuration = (p.beatsOn * newSampleRate * 60) \div p.bpm
              /\ Whole(p.beatsOff, newSampleRate, p.bpm) =>
                    q.samplesForOffDuration = (p.beatsOff * newSampleRate * 60) \div p.bpm
              /\ (Whole(p.beatsOn, newSampleRate, p.bpm)
                     /\ Whole(p.beatsOff, newSampleRate, p.bpm)) =>
                    Period(q) = ((p.beatsOn + p.beatsOff) * newSampleRate * 60) \div p.bpm

C33_ExactDurations == DurationsFor(TimingRates)

(***************************************************************************)
(* C34.  The events a pulse generates, over any sequence of blocks and     *)
(* gate events, alternate strictly On, Off, On, Off, ... and start with an *)
(* On; every Off, scheduled or forced, carries the slot of the On it ends. *)
(* (The buffer an engine with no durations leaves holds no event of its    *)
(* own.)                                                                   *)
(***************************************************************************)
Alternates(es) ==
    \A k \in 1..Len(es) :
        /\ es[k].on <=> (k % 2 = 1)
        /\ (k % 2 = 0) => es[k].vel = es[k - 1].vel

C34_OnOffAlternate ==
    prepared =>
       \A n \in Pulses : ~inert(heap[n].proc) => Alternates(emitted[n])

\* A gated pulse has gone on to its second note, and a pulse with several
\* slots has ended a note of a slot other than the first.
C34_Witness ==
    /\ prepared /\ now > 0
    /\ \E n \in Pulses :
          Gated(n) /\ ~inert(heap[n].proc) /\ Len(emitted[n]) >= 3
    /\ \E n \in Pulses :
          /\ ~inert(heap[n].proc)
          /\ \E k \in 1..Len(emitted[n]) : ~emitted[n][k].on /\ emitted[n][k].vel > 1

(***************************************************************************)
(* C35.  processBlock terminates: when one of the two durations is         *)
(* positive the loop of state changes makes at most two transitions at any *)
(* one sample, after which the next boundary is strictly after the sample; *)
(* when both durations are 0 the loop is not entered.                      *)
(***************************************************************************)
RECURSIVE CountChanges(_, _, _)
\* The number of iterations of the loop of state changes at in-block sample
\* s from engine state r, counted from k and no further than 3.
CountChanges(r, s, k) ==
    IF k > 2 THEN k
    ELSE IF r.p.globalSampleCount + s = r.p.nextStateChangeGlobalSample
    THEN CountChanges(IF r.p.currentCycleState = "AWAITING_NOTE_ON"
                      THEN awaitingNoteOn(r, s) ELSE noteIsOn(r, s), s, k + 1)
    ELSE k

C35_Terminates ==
    \A n \in graphNodes : \A s \in BlockSamples :
        heap[n].kind = "midi" =>
            LET p == Before(n, s) IN
            IF inert(p) THEN Timing(After(n, s)) = Timing(p)
            ELSE /\ CountChanges([p |-> p, out |-> << >>, it |-> 1], s - 1, 0) <= 2
                 /\ After(n, s).nextStateChangeGlobalSample > AbsoluteSample(s)

\* A pulse with one duration of 0 makes two transitions at one sample, and a
\* pulse with no durations has been rendered.
C35_Witness ==
    /\ \E n \in graphNodes : \E s \in BlockSamples :
          /\ heap[n].kind = "midi" /\ ~inert(Before(n, s))
          /\ CountChanges([p |-> Before(n, s), out |-> << >>, it |-> 1], s - 1, 0) = 2
    /\ \E n \in graphNodes : \E s \in BlockSamples :
          heap[n].kind = "midi" /\ inert(Before(n, s))

(***************************************************************************)
(* C36.  After a compile without error every oscillator and every effect   *)
(* has exactly one audio destination, which is an effect made later in the *)
(* same word or the output node, and a pulse is on no audio connection;    *)
(* so no audio path returns to its start, and every oscillator and effect  *)
(* has an audio path to the output node.                                   *)
(***************************************************************************)
AudioDestinations(n) == { d \in graphNodes : << n, d >> \in audioConns }

RECURSIVE AudioReaches(_, _, _)
\* d is at the end of an audio path of at most k connections from n.
AudioReaches(n, d, k) ==
    \/ n = d
    \/ k > 0 /\ \E m \in AudioDestinations(n) : AudioReaches(m, d, k - 1)

C36_OneAudioDestination ==
    (status = "ok" /\ plays > 0) =>
       /\ \A n \in graphNodes \ {audioOut} :
             IF heap[n].kind \in {"osc", "effect"}
             THEN /\ Cardinality(AudioDestinations(n)) = 1
                  /\ \A d \in AudioDestinations(n) :
                        \/ d = audioOut
                        \/ d \in LaterInWord(n) /\ heap[d].kind = "effect"
                  /\ AudioReaches(n, audioOut, Cardinality(graphNodes))
             ELSE \A c \in audioConns : c[1] # n /\ c[2] # n
       /\ AudioDestinations(audioOut) = {}
       /\ \A n \in graphNodes :
             \A m \in AudioDestinations(n) :
                ~AudioReaches(m, n, Cardinality(graphNodes))

\* A pulse, an oscillator into an effect, that effect into a later effect of
\* the word, and the later effect into the output node.
C36_Witness ==
    /\ status = "ok" /\ plays > 0 /\ Pulses # {}
    /\ \E a \in Oscillators : \E c, d \in graphNodes :
          /\ heap[c].kind = "effect" /\ heap[d].kind = "effect"
          /\ AudioDestinations(a) = {c}
          /\ AudioDestinations(c) = {d}
          /\ AudioDestinations(d) = {audioOut}

(***************************************************************************)
(* C37.  An oscillator with no control connection sounds at every sample   *)
(* from its compile on; an oscillator that is a channel-filtered child     *)
(* with slot s is silent after the compile and sounds at a sample if and   *)
(* only if the most recent event of its parent carrying slot s was an On,  *)
(* so that the parent's events of other slots never change it.             *)
(***************************************************************************)
\* OscillatorBase::render: what the oscillator puts in the block, but for
\* the 5 ms ramp of its gain.
Sounding(osc) == ~osc.midiTriggered \/ osc.isPlaying

\* The most recent of the events es that carries slot v is an On.
LastWithSlotIsOn(es, v) ==
    LET f == SelectSeq(es, LAMBDA e : e.vel = v)
    IN f # << >> /\ f[Len(f)].on

\* Pulse p is a MIDI source of node a, which filters by slot, and is the
\* pulse that gave a its slot: a's only source, or not the pulse whose
\* letter is directly before a's.
SlotParent(p, a) ==
    /\ FilteredChild(p, a)
    /\ \/ MidiSources(Here, a) = {p}
       \/ ~\E k \in DirectlyAfterPulse :
             NodeAt(Here, saved_graph, k) = a /\ NodeAt(Here, saved_graph, k - 1) = p

OscillatorFollows(oscs) ==
    (status = "ok" /\ plays > 0) =>
       \A a \in oscs :
          /\ MidiSources(Here, a) = {} =>
                /\ Sounding(heap[a].proc)
                /\ \A s \in BlockSamples : Sounding(After(a, s))
          /\ \A p \in Pulses :
                SlotParent(p, a) =>
                   /\ (~prepared \/ now = 0) => ~Sounding(heap[a].proc)
                   /\ \A s \in BlockSamples :
                         Sounding(After(a, s))
                            <=> LastWithSlotIsOn(EventsUpTo(p, AbsoluteSample(s)), Slot(a))

C37_OscillatorFollowsSlot == OscillatorFollows(Oscillators)

(***************************************************************************)
(* C38.  The gate of a pulse that is a channel-filtered child with slot s  *)
(* is open at a sample if and only if the most recent event received from  *)
(* its parent is an On carrying slot s; it is closed from prepareToPlay to *)
(* the first such On.                                                      *)
(***************************************************************************)
GateFollows(children) ==
    prepared =>
       \A y \in Pulses : \A i \in children :
          SlotParent(y, i) =>
             /\ now = 0 => ~heap[i].proc.externalGatingNoteActive
             /\ \A s \in BlockSamples :
                   After(i, s).externalGatingNoteActive
                      <=> GateOpenFor(y, i, AbsoluteSample(s))

C38_GateFollowsSlot == GateFollows(Pulses)

(***************************************************************************)
(* C39.  A pulse never forwards the events of its parent: whether gated or *)
(* not, with durations or with none, an event leaves a pulse at a sample   *)
(* only if the pulse generated it there, that is, its generated note went  *)
(* on or off at the sample or its cycle was at a boundary.                 *)
(***************************************************************************)
GeneratesAt(n, s) ==
    \/ Before(n, s).ourGeneratedNoteIsOn # After(n, s).ourGeneratedNoteIsOn
    \/ /\ ~inert(Before(n, s))
       /\ Before(n, s).nextStateChangeGlobalSample = AbsoluteSample(s)

OwnEventsOnly(pulses) ==
    prepared =>
       \A n \in pulses :
          /\ \A k \in 1..Len(lastOut[n]) : lastOut[n][k].pos + 1 \in BlockSamples
          /\ \A s \in BlockSamples : EventsAt(n, s) # {} => GeneratesAt(n, s)

C39_NoForwarding == OwnEventsOnly(Pulses)

====
